---------------------------- MODULE Spec2Model ----------------------------
(***************************************************************************)
(* Model of the structured-data processing core of @pricepatrol/parser     *)
(* (src/src/browser.ts, lines 226-461: evaluateStructuredDataPath and      *)
(* StructuredDataProcessor) and of its DOM extractors (lines 12-217:       *)
(* extractJsonLdData, extractMetaTags, extractDataLayers, extractMicrodata *)
(* and BrowserDataExtractor).                                              *)
(*                                                                         *)
(* JavaScript values are records with one shape:                           *)
(*   t  the type tag: "undef" "null" "bool" "num" "str" "arr" "obj" "fn"   *)
(*      ("throw" marks an exception travelling up instead of a value)      *)
(*   b  the boolean of a "bool"                                            *)
(*   n,d  a "num" is the decimal n / 10^d                                  *)
(*   s  the characters of a "str" (a sequence of one-character strings),   *)
(*      the name of a built-in "fn", the error name of a "throw"           *)
(*   e  the elements of an "arr"                                           *)
(*   f  the own properties of an "obj", in insertion order, as records     *)
(*      [k |-> key characters, v |-> value]                                *)
(***************************************************************************)
EXTENDS Integers, Sequences, FiniteSets, TLC

VARIABLES version, data, call, ret, given, sites

vars == <<version, data, call, ret, given, sites>>

-----------------------------------------------------------------------------
(* JavaScript values *)

JsVal(t, b, n, d, s, e, f) ==
  [t |-> t, b |-> b, n |-> n, d |-> d, s |-> s, e |-> e, f |-> f]

Undef == JsVal("undef", FALSE, 0, 0, <<>>, <<>>, <<>>)

Null == JsVal("null", FALSE, 0, 0, <<>>, <<>>, <<>>)

Bool(b) == JsVal("bool", b, 0, 0, <<>>, <<>>, <<>>)

Num(n) == JsVal("num", FALSE, n, 0, <<>>, <<>>, <<>>)

Dec(n, d) == JsVal("num", FALSE, n, d, <<>>, <<>>, <<>>)

Str(s) == JsVal("str", FALSE, 0, 0, s, <<>>, <<>>)

Arr(e) == JsVal("arr", FALSE, 0, 0, <<>>, e, <<>>)

Obj(f) == JsVal("obj", FALSE, 0, 0, <<>>, <<>>, f)

Fn(name) == JsVal("fn", FALSE, 0, 0, name, <<>>, <<>>)

Throw(name) == JsVal("throw", FALSE, 0, 0, name, <<>>, <<>>)

P(k, v) == [k |-> k, v |-> v]

IsThrow(v) == v.t = "throw"

IsNullish(v) == v.t \in {"undef", "null"}

\* ToBoolean: what `!x`, `x && ...` and `x || ...` test
Truthy(v) ==
  CASE v.t \in {"undef", "null"} -> FALSE
    [] v.t = "bool" -> v.b
    [] v.t = "num" -> v.n # 0
    [] v.t = "str" -> Len(v.s) > 0
    [] OTHER -> TRUE

TypeOf(v) ==
  CASE v.t = "undef" -> "undefined"
    [] v.t \in {"null", "arr", "obj"} -> "object"
    [] v.t = "bool" -> "boolean"
    [] v.t = "num" -> "number"
    [] v.t = "str" -> "string"
    [] OTHER -> "function"

-----------------------------------------------------------------------------
(* Characters and strings *)

Digits == <<"0", "1", "2", "3", "4", "5", "6", "7", "8", "9">>

IsDigit(c) == \E i \in 1..10 : Digits[i] = c

DigitVal(c) == (CHOOSE i \in 1..10 : Digits[i] = c) - 1

RECURSIVE NatToStr(_)
NatToStr(n) ==
  IF n < 10 THEN <<Digits[n + 1]>>
  ELSE NatToStr(n \div 10) \o <<Digits[(n % 10) + 1]>>

\* the digits of n, left-padded with zeros to width w
RECURSIVE PadDigits(_, _)
PadDigits(n, w) ==
  IF w = 0 THEN <<>>
  ELSE PadDigits(n \div 10, w - 1) \o <<Digits[(n % 10) + 1]>>

RECURSIVE Pow10(_)
Pow10(d) == IF d = 0 THEN 1 ELSE 10 * Pow10(d - 1)

\* Number::toString of the decimal n / 10^d (d = 0 or n not a multiple of 10)
NumToStr(n, d) ==
  LET a == IF n < 0 THEN 0 - n ELSE n
      sign == IF n < 0 THEN <<"-">> ELSE <<>>
  IN  IF d = 0 THEN sign \o NatToStr(a)
      ELSE sign \o NatToStr(a \div Pow10(d)) \o <<".">> \o PadDigits(a % Pow10(d), d)

\* parseInt(digits, 10) of a non-empty run of digits
RECURSIVE ParseDigits(_)
ParseDigits(s) ==
  IF Len(s) = 0 THEN 0
  ELSE 10 * ParseDigits(SubSeq(s, 1, Len(s) - 1)) + DigitVal(s[Len(s)])

Includes(s, c) == \E i \in 1..Len(s) : s[i] = c

\* String.prototype.indexOf for a character that occurs, 0-based
IndexOf(s, c) == (CHOOSE i \in 1..Len(s) : s[i] = c /\ \A j \in 1..(i - 1) : s[j] # c) - 1

\* String.prototype.split on a one-character separator
RECURSIVE Split(_, _)
Split(s, sep) ==
  IF ~Includes(s, sep) THEN <<s>>
  ELSE LET i == IndexOf(s, sep) + 1
       IN  <<SubSeq(s, 1, i - 1)>> \o Split(SubSeq(s, i + 1, Len(s)), sep)

\* a canonical array index: "0", or digits without a leading zero
IsIndexKey(k) ==
  /\ Len(k) > 0
  /\ \A i \in 1..Len(k) : IsDigit(k[i])
  /\ (Len(k) > 1 => k[1] # "0")

K_length == <<"l", "e", "n", "g", "t", "h">>

K_toString == <<"t", "o", "S", "t", "r", "i", "n", "g">>

K_valueOf == <<"v", "a", "l", "u", "e", "O", "f">>

HasOwn(o, k) == \E i \in 1..Len(o.f) : o.f[i].k = k

OwnGet(o, k) == o.f[CHOOSE i \in 1..Len(o.f) : o.f[i].k = k].v

\* what every non-nullish value inherits from its prototype (toString stands
\* for the inherited methods)
Inherited(k) == IF k = K_toString THEN Fn(K_toString) ELSE Undef

\* the property read  v[k]  with a string key
GetProp(v, k) ==
  CASE IsNullish(v) -> Throw("TypeError")
    [] v.t = "obj" -> IF HasOwn(v, k) THEN OwnGet(v, k) ELSE Inherited(k)
    [] v.t = "arr" ->
         IF IsIndexKey(k)
         THEN IF ParseDigits(k) < Len(v.e) THEN v.e[ParseDigits(k) + 1] ELSE Undef
         ELSE IF k = K_length THEN Num(Len(v.e)) ELSE Inherited(k)
    [] v.t = "str" ->
         IF IsIndexKey(k)
         THEN IF ParseDigits(k) < Len(v.s) THEN Str(<<v.s[ParseDigits(k) + 1]>>) ELSE Undef
         ELSE IF k = K_length THEN Num(Len(v.s)) ELSE Inherited(k)
    [] OTHER -> Inherited(k)

\* the element read  v[i]  of an array with a number
GetIndex(v, i) == IF i < Len(v.e) THEN v.e[i + 1] ELSE Undef

FnSource(name) ==
  <<"f", "u", "n", "c", "t", "i", "o", "n", " ">> \o name
    \o <<"(", ")", " ", "{", " ", "[", "n", "a", "t", "i", "v", "e", " ", "c", "o", "d", "e", "]", " ", "}">>

ObjectObject == <<"[", "o", "b", "j", "e", "c", "t", " ", "O", "b", "j", "e", "c", "t", "]">>

\* String(v): the characters, or <<"throw">> marked by ok = FALSE when the
\* conversion raises (an object whose own toString is not callable)
RECURSIVE ToStr(_)
ToStr(v) ==
  CASE v.t = "undef" -> [ok |-> TRUE, s |-> <<"u", "n", "d", "e", "f", "i", "n", "e", "d">>]
    [] v.t = "null" -> [ok |-> TRUE, s |-> <<"n", "u", "l", "l">>]
    [] v.t = "bool" -> [ok |-> TRUE, s |-> IF v.b THEN <<"t", "r", "u", "e">> ELSE <<"f", "a", "l", "s", "e">>]
    [] v.t = "num" -> [ok |-> TRUE, s |-> NumToStr(v.n, v.d)]
    [] v.t = "str" -> [ok |-> TRUE, s |-> v.s]
    [] v.t = "fn" -> [ok |-> TRUE, s |-> FnSource(v.s)]
    [] v.t = "obj" ->
         IF HasOwn(v, K_toString) /\ OwnGet(v, K_toString).t # "fn"
         THEN [ok |-> FALSE, s |-> <<>>]
         ELSE [ok |-> TRUE, s |-> ObjectObject]
    [] v.t = "arr" ->
         IF Len(v.e) = 0 THEN [ok |-> TRUE, s |-> <<>>]
         ELSE LET last == v.e[Len(v.e)]
                  h == ToStr(Arr(SubSeq(v.e, 1, Len(v.e) - 1)))
                  l == IF IsNullish(last) THEN [ok |-> TRUE, s |-> <<>>] ELSE ToStr(last)
              IN  IF ~h.ok \/ ~l.ok THEN [ok |-> FALSE, s |-> <<>>]
                  ELSE [ok |-> TRUE,
                        s |-> IF Len(v.e) = 1 THEN l.s ELSE h.s \o <<",">> \o l.s]
    [] OTHER -> [ok |-> FALSE, s |-> <<>>]

\* String(v) as a value: a string or a TypeError
String(v) == IF ToStr(v).ok THEN Str(ToStr(v).s) ELSE Throw("TypeError")

-----------------------------------------------------------------------------
(* evaluateStructuredDataPath, browser.ts 239-297 *)

\* the position after the run of digits that starts at position i of s
RECURSIVE DigitRunEnd(_, _)
DigitRunEnd(s, i) ==
  IF i <= Len(s) /\ IsDigit(s[i]) THEN DigitRunEnd(s, i + 1) ELSE i

\* Array.from(indexPart.matchAll(/\[(\d+)\]/g), m => parseInt(m[1], 10)),
\* scanning s from position i
RECURSIVE ScanIndices(_, _)
ScanIndices(s, i) ==
  IF i > Len(s) THEN <<>>
  ELSE IF s[i] = "["
       THEN LET j == DigitRunEnd(s, i + 1)
            IN  IF j > i + 1 /\ j <= Len(s) /\ s[j] = "]"
                THEN <<ParseDigits(SubSeq(s, i + 1, j - 1))>> \o ScanIndices(s, j + 1)
                ELSE ScanIndices(s, i + 1)
       ELSE ScanIndices(s, i + 1)

\* a step of the evaluation either returns v from the function (done) or
\* leaves the cursor at v
Return(v) == [done |-> TRUE, v |-> v]

Continue(v) == [done |-> FALSE, v |-> v]

\* a slip: the loop without the Array.isArray test, indexing whatever the
\* cursor is
RECURSIVE ApplyIndicesAnyCursor(_, _)
ApplyIndicesAnyCursor(current, indices) ==
  IF Len(indices) = 0 THEN Continue(current)
  ELSE LET next == GetProp(current, NatToStr(Head(indices)))
       IN  IF IsNullish(next) THEN Return(Null)
           ELSE ApplyIndicesAnyCursor(next, Tail(indices))

\* for (const index of indices) { ... }   (lines 272-281)
RECURSIVE ApplyIndices(_, _)
ApplyIndices(current, indices) ==
  IF Len(indices) = 0 THEN Continue(current)
  ELSE IF current.t = "arr"
       THEN LET next == GetIndex(current, Head(indices))
            IN  IF IsNullish(next) THEN Return(Null)
                ELSE ApplyIndices(next, Tail(indices))
       ELSE Return(Null)

\* a segment with brackets (lines 250-281)
BracketPart(current, part) ==
  LET bracketStart == IndexOf(part, "[")
      propertyName == SubSeq(part, 1, bracketStart)
      indexPart == SubSeq(part, bracketStart + 1, Len(part))
      indices == ScanIndices(indexPart, 1)
      entered == IF Len(propertyName) > 0 THEN GetProp(current, propertyName) ELSE current
  IN  IF Len(indices) = 0 THEN Return(Null)
      ELSE IF IsThrow(entered) THEN Return(entered)
      ELSE IF Len(propertyName) > 0 /\ IsNullish(entered) THEN Return(Null)
      ELSE ApplyIndices(entered, indices)

\* a segment without brackets (line 284)
PlainPart(current, part) ==
  LET next == GetProp(current, part)
  IN  IF IsThrow(next) THEN Return(next) ELSE Continue(next)

\* a slip: the bracket branch taken only by a segment with a [digits]
\* group, the others being read as plain property names
IsBracketPartWithIndex(part) ==
  Includes(part, "[") /\ Includes(part, "]") /\ Len(ScanIndices(part, 1)) > 0

\* which segments take the bracket branch (line 249)
IsBracketPart(part) == Includes(part, "[") /\ Includes(part, "]")

\* the body of the loop over the segments (lines 249-289)
EvalPart(current, part) ==
  LET step == IF IsBracketPart(part) THEN BracketPart(current, part)
              ELSE PlainPart(current, part)
  IN  IF step.done THEN step
      ELSE IF IsNullish(step.v) THEN Return(Null)
      ELSE step

\* a slip: the final test written as a truthiness test
FinalValueTruthy(current) == IF Truthy(current) THEN String(current) ELSE Null

\* return current !== null && current !== undefined ? String(current) : null
FinalValue(current) == IF ~IsNullish(current) THEN String(current) ELSE Null

\* the loop over the segments and the final conversion (lines 248-293)
RECURSIVE EvalParts(_, _)
EvalParts(current, parts) ==
  IF Len(parts) = 0 THEN FinalValue(current)
  ELSE LET step == EvalPart(current, Head(parts))
       IN  IF step.done THEN step.v ELSE EvalParts(step.v, Tail(parts))

\* a slip: splitting on the colon
ColonSeparator == ":"

\* the separator the path is split on (line 245)
PathSeparator == "."

\* the try block (lines 241-293): a string, Null, or a Throw
EvalTry(obj, path) ==
  IF ~Truthy(obj) \/ Len(path) = 0 THEN Null
  ELSE EvalParts(obj, Split(path, PathSeparator))

\* a slip: the body without its try/catch
EvaluateNoCatch(obj, path) == EvalTry(obj, path)

\* try { ... } catch (error) { return null; }
evaluateStructuredDataPath(obj, path) ==
  LET r == EvalTry(obj, path)
  IN  IF IsThrow(r) THEN Null ELSE r

-----------------------------------------------------------------------------
(* Letters, character codes *)

LowerLetters ==
  <<"a", "b", "c", "d", "e", "f", "g", "h", "i", "j", "k", "l", "m", "n",
    "o", "p", "q", "r", "s", "t", "u", "v", "w", "x", "y", "z">>

UpperLetters ==
  <<"A", "B", "C", "D", "E", "F", "G", "H", "I", "J", "K", "L", "M", "N",
    "O", "P", "Q", "R", "S", "T", "U", "V", "W", "X", "Y", "Z">>

IsLower(c) == \E i \in 1..26 : LowerLetters[i] = c

IsUpper(c) == \E i \in 1..26 : UpperLetters[i] = c

ToLowerChar(c) == IF IsUpper(c) THEN LowerLetters[CHOOSE i \in 1..26 : UpperLetters[i] = c] ELSE c

ToUpperChar(c) == IF IsLower(c) THEN UpperLetters[CHOOSE i \in 1..26 : LowerLetters[i] = c] ELSE c

\* String.prototype.toLowerCase / toUpperCase
ToLowerCase(s) == [i \in 1..Len(s) |-> ToLowerChar(s[i])]

ToUpperCase(s) == [i \in 1..Len(s) |-> ToUpperChar(s[i])]

\* the printable ASCII characters, from code 32 to code 126 (code 96, the
\* grave accent, is left empty: the model writes no string with it)
AsciiChars ==
  <<" ", "!", "\"", "#", "$", "%", "&", "'", "(", ")", "*", "+", ",", "-",
    ".", "/", "0", "1", "2", "3", "4", "5", "6", "7", "8", "9", ":", ";",
    "<", "=", ">", "?", "@", "A", "B", "C", "D", "E", "F", "G", "H", "I",
    "J", "K", "L", "M", "N", "O", "P", "Q", "R", "S", "T", "U", "V", "W",
    "X", "Y", "Z", "[", "\\", "]", "^", "_", "", "a", "b", "c", "d", "e",
    "f", "g", "h", "i", "j", "k", "l", "m", "n", "o", "p", "q", "r", "s",
    "t", "u", "v", "w", "x", "y", "z", "{", "|", "}", "~">>

IsAscii(c) == \E i \in 1..Len(AsciiChars) : AsciiChars[i] = c

\* the character code (tab 9, line feed 10, printable ASCII 32..126)
CharCode(c) ==
  IF c = "\t" THEN 9
  ELSE IF c = "\n" THEN 10
  ELSE 31 + (CHOOSE i \in 1..Len(AsciiChars) : AsciiChars[i] = c)

\* the characters the model's strings are written with
AllChars == {AsciiChars[i] : i \in 1..Len(AsciiChars)} \cup {"\t", "\n"}

WhiteSpace == {" ", "\t", "\n"}

DigitChars == {Digits[i] : i \in 1..10}

WordChars ==
  DigitChars \cup {LowerLetters[i] : i \in 1..26} \cup {UpperLetters[i] : i \in 1..26} \cup {"_"}

\* String.prototype.trim
RECURSIVE TrimStart(_)
TrimStart(s) == IF Len(s) > 0 /\ s[1] \in WhiteSpace THEN TrimStart(Tail(s)) ELSE s

RECURSIVE TrimEnd(_)
TrimEnd(s) ==
  IF Len(s) > 0 /\ s[Len(s)] \in WhiteSpace THEN TrimEnd(SubSeq(s, 1, Len(s) - 1)) ELSE s

Trim(s) == TrimEnd(TrimStart(s))

-----------------------------------------------------------------------------
(* RegExp: the patterns the processor compiles with `new RegExp(pattern,    *)
(* flags)` (browser.ts 330, 386, 396, 420).  The syntax covered: literal    *)
(* characters, `.`, the escapes \d \s \w and \<character>, classes [...]    *)
(* with ranges and negation, groups (...) and (?:...), alternation `|`,     *)
(* the quantifiers * + ? and their lazy forms, the anchors ^ $, and the     *)
(* flags g and i.                                                           *)
(* A pattern is compiled to a tree of nodes of one shape:                   *)
(*   k     "set" "bol" "eol" "cat" "alt" "group" "quant"                    *)
(*   cs, neg   the characters a "set" accepts (neg: all but those)          *)
(*   kids  the sub-patterns                                                 *)
(*   g     the number of a capturing "group"                                *)
(*   min, one, lazy   a "quant" repeats at least min times, at most once    *)
(*         if one, as few times as possible if lazy                         *)

Node(k, cs, neg, kids, g, min, one, lazy) ==
  [k |-> k, cs |-> cs, neg |-> neg, kids |-> kids, g |-> g, min |-> min, one |-> one,
   lazy |-> lazy]

SetNode(cs, neg) == Node("set", cs, neg, <<>>, 0, 0, FALSE, FALSE)

AnchorNode(k) == Node(k, {}, FALSE, <<>>, 0, 0, FALSE, FALSE)

CatNode(kids) == Node("cat", {}, FALSE, kids, 0, 0, FALSE, FALSE)

AltNode(a, b) == Node("alt", {}, FALSE, <<a, b>>, 0, 0, FALSE, FALSE)

GroupNode(kid, g) == Node("group", {}, FALSE, <<kid>>, g, 0, FALSE, FALSE)

QuantNode(kid, min, one, lazy) == Node("quant", {}, FALSE, <<kid>>, 0, min, one, lazy)

\* the outcome of parsing a piece of the pattern p: the node, the position
\* after it, and the number of capturing groups opened so far
Parsed(node, pos, ng) == [ok |-> TRUE, node |-> node, pos |-> pos, ng |-> ng]

SyntaxError == [ok |-> FALSE, node |-> CatNode(<<>>), pos |-> 0, ng |-> 0]

\* the characters an escape \e stands for
EscapeSet(e) ==
  CASE e = "d" -> DigitChars
    [] e = "s" -> WhiteSpace
    [] e = "w" -> WordChars
    [] OTHER -> {e}

\* the characters with a code from lo's to hi's (printable lo and hi)
CharRange(lo, hi) == {AsciiChars[j] : j \in (CharCode(lo) - 31)..(CharCode(hi) - 31)}

\* the members of a class, from position i to the closing bracket
RECURSIVE ClassItems(_, _, _)
ClassItems(p, i, acc) ==
  IF i > Len(p) THEN [ok |-> FALSE, cs |-> {}, pos |-> 0]
  ELSE IF p[i] = "]" THEN [ok |-> TRUE, cs |-> acc, pos |-> i + 1]
  ELSE IF p[i] = "\\"
       THEN IF i = Len(p) THEN [ok |-> FALSE, cs |-> {}, pos |-> 0]
            ELSE ClassItems(p, i + 2, acc \cup EscapeSet(p[i + 1]))
  ELSE IF i + 2 <= Len(p) /\ p[i + 1] = "-" /\ p[i + 2] \notin {"]", "\\"}
       THEN IF CharCode(p[i]) > CharCode(p[i + 2]) THEN [ok |-> FALSE, cs |-> {}, pos |-> 0]
            ELSE ClassItems(p, i + 3, acc \cup CharRange(p[i], p[i + 2]))
  ELSE ClassItems(p, i + 1, acc \cup {p[i]})

Quantifiers == {"*", "+", "?"}

RECURSIVE ParseDisjunction(_, _, _)
RECURSIVE ParseAlternative(_, _, _, _)
RECURSIVE ParseTerm(_, _, _)
RECURSIVE ParseAtom(_, _, _)

\* the alternation of a and what follows its `|`
Alternation(a, r) ==
  IF ~r.ok THEN SyntaxError ELSE Parsed(AltNode(a.node, r.node), r.pos, r.ng)

\* what follows the alternative a: a `|` and a disjunction, or nothing
AfterAlternative(p, a) ==
  IF ~a.ok THEN SyntaxError
  ELSE IF a.pos <= Len(p) /\ p[a.pos] = "|"
       THEN Alternation(a, ParseDisjunction(p, a.pos + 1, a.ng))
       ELSE a

\* Alternative ( | Alternative )*
ParseDisjunction(p, i, ng) == AfterAlternative(p, ParseAlternative(p, i, ng, <<>>))

\* the terms after the term t
AfterTerm(p, t, acc) ==
  IF ~t.ok THEN SyntaxError
  ELSE ParseAlternative(p, t.pos, t.ng, Append(acc, t.node))

\* Term*, up to the end, a `|` or a `)`
ParseAlternative(p, i, ng, acc) ==
  IF i > Len(p) \/ p[i] \in {"|", ")"} THEN Parsed(CatNode(acc), i, ng)
  ELSE AfterTerm(p, ParseTerm(p, i, ng), acc)

\* the atom a under the quantifier at a.pos, which ends before `after`
Quantified(p, a, lazy, after) ==
  IF after <= Len(p) /\ p[after] \in Quantifiers THEN SyntaxError
  ELSE Parsed(QuantNode(a.node, IF p[a.pos] = "+" THEN 1 ELSE 0, p[a.pos] = "?", lazy),
              after, a.ng)

\* the quantifier at a.pos, lazy when a `?` follows it
Quantifier(p, a, lazy) == Quantified(p, a, lazy, IF lazy THEN a.pos + 2 ELSE a.pos + 1)

\* what follows the atom a: a quantifier, or nothing
AfterAtom(p, a) ==
  IF ~a.ok THEN SyntaxError
  ELSE IF a.pos <= Len(p) /\ p[a.pos] \in Quantifiers
       THEN Quantifier(p, a, a.pos + 1 <= Len(p) /\ p[a.pos + 1] = "?")
       ELSE a

\* an anchor, or an atom with its quantifier
ParseTerm(p, i, ng) ==
  IF p[i] = "^" THEN Parsed(AnchorNode("bol"), i + 1, ng)
  ELSE IF p[i] = "$" THEN Parsed(AnchorNode("eol"), i + 1, ng)
  ELSE AfterAtom(p, ParseAtom(p, i, ng))

\* the class with the members c
ClassAtom(c, neg, ng) ==
  IF ~c.ok THEN SyntaxError ELSE Parsed(SetNode(c.cs, neg), c.pos, ng)

\* the group around the disjunction d, capturing unless nc
GroupAtom(p, d, nc, ng) ==
  IF ~d.ok \/ d.pos > Len(p) THEN SyntaxError
  ELSE IF p[d.pos] # ")" THEN SyntaxError
  ELSE Parsed(IF nc THEN d.node ELSE GroupNode(d.node, ng + 1), d.pos + 1, d.ng)

\* the group opened at i: (?: ... ) when nc, ( ... ) otherwise
ParseGroup(p, i, nc, ng) ==
  GroupAtom(p, IF nc THEN ParseDisjunction(p, i + 3, ng)
               ELSE ParseDisjunction(p, i + 1, ng + 1), nc, ng)

\* the class opened at i: [^ ... ] when neg, [ ... ] otherwise
ParseClass(p, i, neg, ng) ==
  ClassAtom(ClassItems(p, IF neg THEN i + 2 ELSE i + 1, {}), neg, ng)

ParseAtom(p, i, ng) ==
  CASE p[i] = "." -> Parsed(SetNode({"\n"}, TRUE), i + 1, ng)
    [] p[i] = "\\" ->
         IF i = Len(p) THEN SyntaxError
         ELSE Parsed(SetNode(EscapeSet(p[i + 1]), FALSE), i + 2, ng)
    [] p[i] = "[" -> ParseClass(p, i, i + 1 <= Len(p) /\ p[i + 1] = "^", ng)
    [] p[i] = "(" ->
         ParseGroup(p, i, i + 2 <= Len(p) /\ p[i + 1] = "?" /\ p[i + 2] = ":", ng)
    [] p[i] \in Quantifiers -> SyntaxError
    [] OTHER -> Parsed(SetNode({p[i]}, FALSE), i + 1, ng)

\* the flag i: every set accepts both cases of its letters
RECURSIVE IgnoreCase(_)
IgnoreCase(node) ==
  [node EXCEPT
     !.cs = node.cs \cup {ToLowerChar(c) : c \in node.cs} \cup {ToUpperChar(c) : c \in node.cs},
     !.kids = [j \in 1..Len(node.kids) |-> IgnoreCase(node.kids[j])]]

ValidFlags(flags) ==
  /\ \A j \in 1..Len(flags) : flags[j] \in {"d", "g", "i", "m", "s", "u", "y"}
  /\ \A j, k \in 1..Len(flags) : j # k => flags[j] # flags[k]

\* the RegExp object for the parsed pattern d: ok = FALSE is the SyntaxError
\* that new RegExp raises
Compiled(d, pattern, flags) ==
  IF ~ValidFlags(flags) \/ ~d.ok \/ d.pos # Len(pattern) + 1
  THEN [ok |-> FALSE, node |-> CatNode(<<>>), ng |-> 0, global |-> FALSE]
  ELSE [ok |-> TRUE,
        node |-> IF Includes(flags, "i") THEN IgnoreCase(d.node) ELSE d.node,
        ng |-> d.ng,
        global |-> Includes(flags, "g")]

\* new RegExp(pattern, flags).  An empty pattern compiles to (?:), an absent
\* flags argument is <<>>.
RegExp(pattern, flags) == Compiled(ParseDisjunction(pattern, 1, 0), pattern, flags)

\* the capturing groups inside a node
RECURSIVE GroupsIn(_)
GroupsIn(node) ==
  (IF node.k = "group" THEN {node.g} ELSE {})
    \cup UNION {GroupsIn(node.kids[j]) : j \in 1..Len(node.kids)}

\* a way to match: the position reached (characters consumed so far) and the
\* captures, Undef for a group that took no part
Way(i, caps) == [i |-> i, caps |-> caps]

AcceptsChar(node, c) == (c \in node.cs) # node.neg

RECURSIVE Match(_, _, _, _)
RECURSIVE MatchCat(_, _, _, _, _)
RECURSIVE MatchCatEach(_, _, _, _, _)
RECURSIVE MatchQuant(_, _, _, _, _)
RECURSIVE MatchQuantEach(_, _, _, _, _, _)

\* the captures once group g has captured text
Captured(caps, g, text) ==
  SubSeq(caps, 1, g - 1) \o <<text>> \o SubSeq(caps, g + 1, Len(caps))

\* every way to match node on s from position i, in the order the
\* backtracking matcher tries them
Match(node, s, i, caps) ==
  CASE node.k = "set" ->
         IF i < Len(s) /\ AcceptsChar(node, s[i + 1]) THEN <<Way(i + 1, caps)>> ELSE <<>>
    [] node.k = "bol" -> IF i = 0 THEN <<Way(i, caps)>> ELSE <<>>
    [] node.k = "eol" -> IF i = Len(s) THEN <<Way(i, caps)>> ELSE <<>>
    [] node.k = "cat" -> MatchCat(node.kids, 1, s, i, caps)
    [] node.k = "alt" -> Match(node.kids[1], s, i, caps) \o Match(node.kids[2], s, i, caps)
    [] node.k = "group" ->
         LET ws == Match(node.kids[1], s, i, caps)
         IN  [j \in 1..Len(ws) |->
                Way(ws[j].i, Captured(ws[j].caps, node.g, Str(SubSeq(s, i + 1, ws[j].i))))]
    [] OTHER -> MatchQuant(node, s, i, caps, node.min)

MatchCat(kids, k, s, i, caps) ==
  IF k > Len(kids) THEN <<Way(i, caps)>>
  ELSE MatchCatEach(kids, k, s, Match(kids[k], s, i, caps), 1)

MatchCatEach(kids, k, s, ws, j) ==
  IF j > Len(ws) THEN <<>>
  ELSE MatchCat(kids, k + 1, s, ws[j].i, ws[j].caps) \o MatchCatEach(kids, k, s, ws, j + 1)

\* one more repetition (its groups cleared first) and what follows, or no
\* more repetition; a repetition that consumes nothing is rejected once min
\* is reached
MatchQuant(node, s, i, caps, min) ==
  LET cleared == [g \in 1..Len(caps) |-> IF g \in GroupsIn(node) THEN Undef ELSE caps[g]]
      more == MatchQuantEach(node, s, i, min, Match(node.kids[1], s, i, cleared), 1)
      stop == IF min = 0 THEN <<Way(i, caps)>> ELSE <<>>
  IN  IF node.lazy THEN stop \o more ELSE more \o stop

MatchQuantEach(node, s, i, min, ws, j) ==
  IF j > Len(ws) THEN <<>>
  ELSE (IF ws[j].i = i THEN (IF min > 0 THEN <<ws[j]>> ELSE <<>>)
        ELSE IF node.one THEN <<ws[j]>>
        ELSE MatchQuant(node, s, ws[j].i, ws[j].caps, IF min > 0 THEN min - 1 ELSE 0))
       \o MatchQuantEach(node, s, i, min, ws, j + 1)

\* RegExp.prototype.exec from position `from`: the first position where the
\* pattern matches and the first way it matches there
RECURSIVE Exec(_, _, _)
Exec(re, s, from) ==
  IF from > Len(s) THEN [found |-> FALSE, index |-> 0, end |-> 0, caps |-> <<>>]
  ELSE LET ws == Match(re.node, s, from, [g \in 1..re.ng |-> Undef])
       IN  IF Len(ws) > 0
           THEN [found |-> TRUE, index |-> from, end |-> ws[1].i, caps |-> ws[1].caps]
           ELSE Exec(re, s, from + 1)

\* the texts of all the matches of a global pattern, from position `from`
RECURSIVE AllMatches(_, _, _)
AllMatches(re, s, from) ==
  LET m == Exec(re, s, from)
  IN  IF ~m.found THEN <<>>
      ELSE <<Str(SubSeq(s, m.index + 1, m.end))>>
             \o AllMatches(re, s, IF m.end = m.index THEN m.end + 1 ELSE m.end)

\* String.prototype.match: without g the array [match, group 1, ...] of the
\* first match; with g the array of the texts of all matches; null when
\* there is no match
StringMatch(s, re) ==
  IF re.global
  THEN IF Len(AllMatches(re, s, 0)) = 0 THEN Null ELSE Arr(AllMatches(re, s, 0))
  ELSE LET m == Exec(re, s, 0)
       IN  IF ~m.found THEN Null
           ELSE Arr(<<Str(SubSeq(s, m.index + 1, m.end))>> \o m.caps)

\* the replacement text for the match m: $$, $& and $1..$9 expanded
RECURSIVE Expand(_, _, _, _)
Expand(rep, j, s, m) ==
  IF j > Len(rep) THEN <<>>
  ELSE IF rep[j] = "$" /\ j < Len(rep) /\ rep[j + 1] = "$"
       THEN <<"$">> \o Expand(rep, j + 2, s, m)
  ELSE IF rep[j] = "$" /\ j < Len(rep) /\ rep[j + 1] = "&"
       THEN SubSeq(s, m.index + 1, m.end) \o Expand(rep, j + 2, s, m)
  ELSE IF rep[j] = "$" /\ j < Len(rep) /\ IsDigit(rep[j + 1])
          /\ DigitVal(rep[j + 1]) >= 1 /\ DigitVal(rep[j + 1]) <= Len(m.caps)
       THEN (IF m.caps[DigitVal(rep[j + 1])].t = "str" THEN m.caps[DigitVal(rep[j + 1])].s
             ELSE <<>>) \o Expand(rep, j + 2, s, m)
  ELSE <<rep[j]>> \o Expand(rep, j + 1, s, m)

\* String.prototype.replace with a pattern and a replacement string: the
\* first match, or every match with g, replaced
RECURSIVE ReplaceFrom(_, _, _, _, _)
ReplaceFrom(s, re, rep, from, copied) ==
  LET m == Exec(re, s, from)
  IN  IF ~m.found THEN SubSeq(s, copied + 1, Len(s))
      ELSE SubSeq(s, copied + 1, m.index) \o Expand(rep, 1, s, m)
             \o (IF ~re.global THEN SubSeq(s, m.end + 1, Len(s))
                 ELSE IF m.end = m.index
                      THEN (IF m.end < Len(s) THEN <<s[m.end + 1]>> ELSE <<>>)
                             \o ReplaceFrom(s, re, rep, m.end + 1, m.end + 1)
                      ELSE ReplaceFrom(s, re, rep, m.end, m.end))

StringReplace(s, re, rep) == ReplaceFrom(s, re, rep, 0, 0)

-----------------------------------------------------------------------------
(* StructuredDataProcessor, browser.ts 302-461.                             *)
(* A payload is a record of JavaScript values (types.ts 5-16), a selector   *)
(* a record of its five paths and its regex as JavaScript values, Undef     *)
(* when absent, and its list of transformations, <<>> when absent or empty  *)
(* (types.ts 26-34), a transformation a record of its type and of its       *)
(* pattern, replacement and flags as JavaScript values (types.ts 36-41).    *)
(* A confidence is written in tenths: 9 is 0.9.                             *)

\* a slip: metaTags tried before jsonLd
methodsMetaFirst ==
  <<[key |-> "metaTags", source |-> "metaTags", confidence |-> 8],
    [key |-> "jsonLd", source |-> "jsonLd", confidence |-> 9],
    [key |-> "dataLayers", source |-> "dataLayers", confidence |-> 7],
    [key |-> "microdata", source |-> "microdata", confidence |-> 6],
    [key |-> "customDataLayers", source |-> "customDataLayers", confidence |-> 5]>>

\* a slip: two confidences exchanged
methodsConfidenceSwapped ==
  <<[key |-> "jsonLd", source |-> "jsonLd", confidence |-> 9],
    [key |-> "metaTags", source |-> "metaTags", confidence |-> 7],
    [key |-> "dataLayers", source |-> "dataLayers", confidence |-> 8],
    [key |-> "microdata", source |-> "microdata", confidence |-> 6],
    [key |-> "customDataLayers", source |-> "customDataLayers", confidence |-> 5]>>

\* const methods = [...]   (lines 314-320)
methods ==
  <<[key |-> "jsonLd", source |-> "jsonLd", confidence |-> 9],
    [key |-> "metaTags", source |-> "metaTags", confidence |-> 8],
    [key |-> "dataLayers", source |-> "dataLayers", confidence |-> 7],
    [key |-> "microdata", source |-> "microdata", confidence |-> 6],
    [key |-> "customDataLayers", source |-> "customDataLayers", confidence |-> 5]>>

\* private extractFromSource(source, path)   (lines 368-370)
extractFromSource(source, path) == evaluateStructuredDataPath(source, path)

\* a || b
Or(a, b) == IF Truthy(a) THEN a ELSE b

\* the flags argument of new RegExp: undefined means none
FlagsOf(v) == IF v.t = "str" THEN v.s ELSE <<>>

\* parseFloat of a string made of digits, dots and minus signs: the longest
\* prefix  -? digits [ . digits ]  with at least one digit; nan when there is
\* none.  The number is the decimal n / 10^d without trailing zeros.
RECURSIVE StripZeros(_, _)
StripZeros(n, d) == IF d > 0 /\ n % 10 = 0 THEN StripZeros(n \div 10, d - 1) ELSE Dec(n, d)

ParseFloat(s) ==
  LET neg == Len(s) > 0 /\ s[1] = "-"
      b == IF neg THEN 2 ELSE 1
      e1 == DigitRunEnd(s, b)
      hasDot == e1 <= Len(s) /\ s[e1] = "."
      e2 == IF hasDot THEN DigitRunEnd(s, e1 + 1) ELSE e1
      int == SubSeq(s, b, e1 - 1)
      frac == IF hasDot THEN SubSeq(s, e1 + 1, e2 - 1) ELSE <<>>
      mag == ParseDigits(int \o frac)
  IN  IF Len(int) + Len(frac) = 0 THEN [nan |-> TRUE, v |-> Undef]
      ELSE [nan |-> FALSE, v |-> StripZeros(IF neg THEN 0 - mag ELSE mag, Len(frac))]

\* a slip: a word left out of the list
BooleanWordsWithoutEnabled == {<<"t", "r", "u", "e">>, <<"y", "e", "s">>, <<"1">>, <<"o", "n">>}

\* ['true', 'yes', '1', 'on', 'enabled']   (line 429)
BooleanWords ==
  {<<"t", "r", "u", "e">>, <<"y", "e", "s">>, <<"1">>, <<"o", "n">>,
   <<"e", "n", "a", "b", "l", "e", "d">>}

\* a slip: the pattern without its g flag
NonNumericFirst == RegExp(<<"[", "^", "\\", "d", ".", "-", "]">>, <<>>)

\* /[^\d.-]/g   (line 420)
NonNumeric == RegExp(<<"[", "^", "\\", "d", ".", "-", "]">>, <<"g">>)

\* a slip: group 1 taken without the fallback to the full match
MatchedGroupOnly(match, result) ==
  IF Truthy(match) THEN GetIndex(match, 1) ELSE result

\* match[1] || match[0] when there is a match, the value as it was otherwise
\* (lines 388-390)
MatchedOr(match, result) ==
  IF Truthy(match) THEN Or(GetIndex(match, 1), GetIndex(match, 0)) ELSE result

\* result.match(regex), where compiling regex may have raised
MatchWith(result, regex) ==
  IF ~regex.ok THEN Throw("SyntaxError")
  ELSE MatchedOr(StringMatch(result.s, regex), result)

\* result.replace(regex, replacement), where compiling regex may have raised
ReplaceWith(result, regex, replacement) ==
  IF ~regex.ok THEN Throw("SyntaxError")
  ELSE Str(StringReplace(result.s, regex, replacement.s))

\* if (!isNaN(parsed)) result = parsed   (lines 421-423)
ParsedOr(parsed, result) == IF ~parsed.nan THEN parsed.v ELSE result

\* one case of the switch (lines 383-432): the value after the
\* transformation, or a Throw
ApplyTransformation(result, transform) ==
  CASE transform.type = "regex" ->
         IF Truthy(transform.pattern) /\ TypeOf(result) = "string"
         THEN MatchWith(result, RegExp(transform.pattern.s, FlagsOf(transform.flags)))
         ELSE result
    [] transform.type = "replace" ->
         IF Truthy(transform.pattern) /\ Truthy(transform.replacement)
            /\ TypeOf(result) = "string"
         THEN ReplaceWith(result, RegExp(transform.pattern.s, FlagsOf(transform.flags)),
                          transform.replacement)
         ELSE result
    [] transform.type = "trim" ->
         IF TypeOf(result) = "string" THEN Str(Trim(result.s)) ELSE result
    [] transform.type = "lowercase" ->
         IF TypeOf(result) = "string" THEN Str(ToLowerCase(result.s)) ELSE result
    [] transform.type = "uppercase" ->
         IF TypeOf(result) = "string" THEN Str(ToUpperCase(result.s)) ELSE result
    [] transform.type = "parseNumber" ->
         IF TypeOf(result) = "string"
         THEN ParsedOr(ParseFloat(StringReplace(result.s, NonNumeric, <<>>)), result)
         ELSE result
    [] transform.type = "parseBoolean" ->
         IF TypeOf(result) = "string" THEN Bool(ToLowerCase(result.s) \in BooleanWords)
         ELSE result
    [] OTHER -> result

\* a slip: the list applied from its last transformation to its first
RECURSIVE applyTransformationsReversed(_, _)
applyTransformationsReversed(value, transformations) ==
  IF Len(transformations) = 0 THEN value
  ELSE LET result == ApplyTransformation(value, transformations[Len(transformations)])
       IN  IF IsThrow(result) THEN result
           ELSE applyTransformationsReversed(
                  result, SubSeq(transformations, 1, Len(transformations) - 1))

RECURSIVE applyTransformations(_, _)

\* the rest of the loop after one transformation gave result; an exception
\* ends it
AfterTransformation(result, transformations) ==
  IF IsThrow(result) THEN result ELSE applyTransformations(result, transformations)

\* private applyTransformations(value, transformations)   (lines 375-436)
applyTransformations(value, transformations) ==
  IF Len(transformations) = 0 THEN value
  ELSE AfterTransformation(ApplyTransformation(value, Head(transformations)),
                           Tail(transformations))

\* what processSelector hands back: an ExtractedField, null, or an exception
Field(value, source, path, confidence) ==
  [k |-> "field", value |-> value, source |-> source, path |-> path,
   confidence |-> confidence]

NullResult == [k |-> "null", value |-> Null, source |-> "", path |-> <<>>, confidence |-> 0]

Raised == [k |-> "throw", value |-> Null, source |-> "", path |-> <<>>, confidence |-> 0]

\* the sentinel of line 325
NotFound == Str(<<"N", "o", "t", " ", "f", "o", "u", "n", "d">>)

\* a slip: the pattern compiled before the type of the value is tested
ApplySelectorRegexCompiledFirst(processedValue, regex) ==
  IF ~Truthy(regex) THEN processedValue
  ELSE IF TypeOf(processedValue) = "string"
       THEN MatchWith(processedValue, RegExp(regex.s, <<>>))
       ELSE IF RegExp(regex.s, <<>>).ok THEN processedValue ELSE Throw("SyntaxError")

\* if (selector.regex && typeof processedValue === 'string') ...  (328-334)
ApplySelectorRegex(processedValue, regex) ==
  IF Truthy(regex) /\ TypeOf(processedValue) = "string"
  THEN MatchWith(processedValue, RegExp(regex.s, <<>>))
  ELSE processedValue

\* the regex step after the transformations, unless they raised
RegexStep(transformed, regex) ==
  IF IsThrow(transformed) THEN transformed ELSE ApplySelectorRegex(transformed, regex)

\* return { value, source, path, confidence }   (lines 336-341), unless the
\* steps before raised
Returned(processedValue, method, selector) ==
  IF IsThrow(processedValue) THEN Raised
  ELSE Field(processedValue, method.source, selector[method.key].s, method.confidence)

\* the body of the hit branch (lines 326-341)
Hit(result, method, selector) ==
  Returned(RegexStep(applyTransformations(result, selector.transformations),
                     selector.regex),
           method, selector)

\* a slip: the sentinel not tested
IsHitNoSentinel(result) == result # Null

\* a slip: the result tested for truth, so that an empty string is a miss
IsHitTruthy(result) == Truthy(result) /\ result # NotFound

\* result !== null && result !== 'Not found'   (line 325)
IsHit(result) == result # Null /\ result # NotFound

RECURSIVE TryMethods(_, _, _)

\* if (result !== null && result !== 'Not found') { ... }: a hit returns,
\* a miss goes on with the next method
Tried(pdata, selector, i, method, result) ==
  IF IsHit(result) THEN Hit(result, method, selector)
  ELSE TryMethods(pdata, selector, i + 1)

\* a slip: the source read without the test that the payload has it
TryMethodWithoutSourceTest(pdata, selector, i, method) ==
  IF Truthy(selector[method.key])
  THEN IF IsNullish(pdata[method.source]) THEN Raised
       ELSE Tried(pdata, selector, i, method,
                  extractFromSource(pdata[method.source], selector[method.key].s))
  ELSE TryMethods(pdata, selector, i + 1)

\* one turn of the loop (lines 323-343)
TryMethod(pdata, selector, i, method) ==
  IF Truthy(selector[method.key]) /\ Truthy(pdata[method.source])
  THEN Tried(pdata, selector, i, method,
             extractFromSource(pdata[method.source], selector[method.key].s))
  ELSE TryMethods(pdata, selector, i + 1)

\* for (const method of methods) { ... } return null;   (lines 322-346),
\* from the method at position i
TryMethods(pdata, selector, i) ==
  IF i > Len(methods) THEN NullResult ELSE TryMethod(pdata, selector, i, methods[i])

\* processSelector(data, selector)   (lines 312-347)
processSelector(pdata, selector) == TryMethods(pdata, selector, 1)

\* what processRecipe hands back: the ProductData as the sequence of its
\* entries [name, field] in insertion order, or an exception
Product(fields) == [k |-> "product", fields |-> fields]

RaisedProduct == [k |-> "throw", fields |-> <<>>]

\* a slip: the loop left at the first field that resolves to null
RECURSIVE RecipeLoopBreak(_, _, _, _)
RecipeLoopBreak(pdata, selectors, i, result) ==
  IF i > Len(selectors) THEN Product(result)
  ELSE LET extracted == processSelector(pdata, selectors[i].selector)
       IN  IF extracted.k = "throw" THEN RaisedProduct
           ELSE IF extracted.k = "field"
                THEN RecipeLoopBreak(pdata, selectors, i + 1,
                                     Append(result, [name |-> selectors[i].name, field |-> extracted]))
                ELSE Product(result)

RECURSIVE RecipeLoop(_, _, _, _)

\* if (extracted) result[fieldName] = extracted   (lines 357-359), and the
\* rest of the loop; an exception ends it
Extracted(pdata, selectors, i, result, extracted) ==
  IF extracted.k = "throw" THEN RaisedProduct
  ELSE IF extracted.k = "field"
       THEN RecipeLoop(pdata, selectors, i + 1,
                       Append(result, [name |-> selectors[i].name, field |-> extracted]))
       ELSE RecipeLoop(pdata, selectors, i + 1, result)

\* for (const [fieldName, selector] of Object.entries(selectors)) { ... }
\* (lines 355-360), from the entry at position i
RecipeLoop(pdata, selectors, i, result) ==
  IF i > Len(selectors) THEN Product(result)
  ELSE Extracted(pdata, selectors, i, result,
                 processSelector(pdata, selectors[i].selector))

\* processRecipe(data, selectors)   (lines 352-363); selectors is the
\* sequence of the entries [name, selector] of the mapping
processRecipe(pdata, selectors) == RecipeLoop(pdata, selectors, 1, <<>>)

-----------------------------------------------------------------------------
(* Inputs of the path evaluator *)

\* { a: { a: "v", n: 20, z: 0, f: false, u: null },
\*   l: [ "i1", { a: "w", n: 10 }, [ [ { a: "deep" } ] ] ],
\*   "a:n": "special", "l[x]": "literal", t: { toString: "x" } }
TestData ==
  Obj(<<P(<<"a">>, Obj(<<P(<<"a">>, Str(<<"v">>)), P(<<"n">>, Num(20)), P(<<"z">>, Num(0)),
                         P(<<"f">>, Bool(FALSE)), P(<<"u">>, Null)>>)),
        P(<<"l">>, Arr(<<Str(<<"i", "1">>),
                         Obj(<<P(<<"a">>, Str(<<"w">>)), P(<<"n">>, Num(10))>>),
                         Arr(<<Arr(<<Obj(<<P(<<"a">>, Str(<<"d", "e", "e", "p">>))>>)>>)>>)>>)),
        P(<<"a", ":", "n">>, Str(<<"s", "p", "e", "c", "i", "a", "l">>)),
        P(<<"l", "[", "x", "]">>, Str(<<"l", "i", "t", "e", "r", "a", "l">>)),
        P(<<"t">>, Obj(<<P(K_toString, Str(<<"x">>))>>))>>)

\* [ [ { a: "deep" } ], "i1" ]
DeepData == Arr(<<Arr(<<Obj(<<P(<<"a">>, Str(<<"d", "e", "e", "p">>))>>)>>), Str(<<"i", "1">>)>>)

EvalRoots ==
  {Null, Undef, Bool(FALSE), Num(0), Str(<<>>), Str(<<"a", "b">>), Num(7), Obj(<<>>),
   TestData, DeepData}

\* the largest number of tokens (property names and bracket groups) in a path
MaxTokens == 3

\* property names a path segment can start with ("m" is nowhere a key)
PathNames ==
  {<<>>, <<"a">>, <<"n">>, <<"z">>, <<"f">>, <<"u">>, <<"l">>, <<"t">>, <<"m">>,
   <<"a", ":", "n">>, <<"0">>, K_length, K_toString}

\* the bracket groups [0], [1], [2] (idx is the index written) and the
\* groups without an index [x] and [] (idx = -1)
PathGroups ==
  {[name |-> FALSE, s |-> <<"[">> \o NatToStr(i) \o <<"]">>, idx |-> i] : i \in {0, 1, 2}}
    \cup {[name |-> FALSE, s |-> g, idx |-> -1] :
            g \in {<<"[", "x", "]">>, <<"[", "]">>}}

PathTokens == {[name |-> TRUE, s |-> n, idx |-> -1] : n \in PathNames} \cup PathGroups

TokenSeqs == UNION {[1..k -> PathTokens] : k \in 0..MaxTokens}

\* the path written by a sequence of tokens: a name after the first token
\* starts a new segment
RECURSIVE RenderPath(_, _)
RenderPath(ts, i) ==
  IF i > Len(ts) THEN <<>>
  ELSE (IF ts[i].name /\ i > 1 THEN <<".">> ELSE <<>>) \o ts[i].s \o RenderPath(ts, i + 1)

-----------------------------------------------------------------------------
(* Inputs of the processor *)

\* [ { name: "Tv 65", price: "$1,399.00", sku: "Not found" } ]
JsonLdFull ==
  Arr(<<Obj(<<P(<<"n", "a", "m", "e">>, Str(<<"T", "v", " ", "6", "5">>)), P(<<"p", "r", "i", "c", "e">>, Str(<<"$", "1", ",", "3", "9", "9", ".", "0", "0">>)), P(<<"s", "k", "u">>, NotFound)>>)>>)

\* { "og:title": "Tv - Shop", flag: " Yes " }
MetaTagsFull == Obj(<<P(<<"o", "g", ":", "t", "i", "t", "l", "e">>, Str(<<"T", "v", " ", "-", " ", "S", "h", "o", "p">>)), P(<<"f", "l", "a", "g">>, Str(<<" ", "Y", "e", "s", " ">>))>>)

\* { dataLayer: [ { name: "Tv dl", price: 1399 } ] }
DataLayersFull ==
  Obj(<<P(<<"d", "a", "t", "a", "L", "a", "y", "e", "r">>, Arr(<<Obj(<<P(<<"n", "a", "m", "e">>, Str(<<"T", "v", " ", "d", "l">>)), P(<<"p", "r", "i", "c", "e">>, Num(1399))>>)>>))>>)

\* [ { "@type": "Product", name: "Tv md" } ]
MicrodataFull ==
  Arr(<<Obj(<<P(<<"@", "t", "y", "p", "e">>, Str(<<"P", "r", "o", "d", "u", "c", "t">>)),
              P(<<"n", "a", "m", "e">>, Str(<<"T", "v", " ", "m", "d">>))>>)>>)

\* { name: "Tv custom" }
CustomFull == Obj(<<P(<<"n", "a", "m", "e">>, Str(<<"T", "v", " ", "c", "u", "s", "t", "o", "m">>))>>)

Payload(jsonLd, metaTags, dataLayers, microdata, customDataLayers) ==
  [jsonLd |-> jsonLd, metaTags |-> metaTags, dataLayers |-> dataLayers,
   microdata |-> microdata, customDataLayers |-> customDataLayers,
   url |-> Str(<<"h", "t", "t", "p", "s", ":", "/", "/", "s", "h", "o", "p", ".", "n", "z", "/", "t", "v">>), pageTitle |-> Str(<<"T", "v", " ", "-", " ", "S", "h", "o", "p">>),
   timestamp |-> Str(<<"2", "0", "2", "5", "-", "0", "1", "-", "2", "3", "T", "1", "0", ":", "3", "0", ":", "0", "0", "Z">>), extractorVersion |-> Str(<<"1", ".", "0", ".", "0">>)]

FullPayload == Payload(JsonLdFull, MetaTagsFull, DataLayersFull, MicrodataFull, CustomFull)

\* nothing but empty sources
BarePayload == Payload(Arr(<<>>), Obj(<<>>), Obj(<<>>), Undef, Undef)

\* a meta tag extracted with an empty content: { "og:title": "" }
EmptyContentPayload ==
  Payload(JsonLdFull, Obj(<<P(<<"o", "g", ":", "t", "i", "t", "l", "e">>, Str(<<>>))>>), DataLayersFull, MicrodataFull, CustomFull)

\* the payloads: every source filled; one source empty or absent; the
\* optional sources absent; nothing but empty sources; a meta tag with an
\* empty content
Payloads ==
  {FullPayload,
   EmptyContentPayload,
   Payload(Arr(<<>>), MetaTagsFull, DataLayersFull, MicrodataFull, CustomFull),
   Payload(Undef, MetaTagsFull, DataLayersFull, MicrodataFull, CustomFull),
   Payload(JsonLdFull, Obj(<<>>), DataLayersFull, MicrodataFull, CustomFull),
   Payload(JsonLdFull, MetaTagsFull, Obj(<<>>), MicrodataFull, CustomFull),
   Payload(JsonLdFull, MetaTagsFull, DataLayersFull, Undef, Undef),
   BarePayload}

Selector(jsonLd, metaTags, dataLayers, microdata, customDataLayers, regex, transformations) ==
  [jsonLd |-> jsonLd, metaTags |-> metaTags, dataLayers |-> dataLayers,
   microdata |-> microdata, customDataLayers |-> customDataLayers,
   regex |-> regex, transformations |-> transformations]

\* the paths a selector can carry for each source: none, the empty string,
\* paths that resolve in the full payload, paths that do not, and a path
\* to the sentinel "Not found"
JsonLdPaths == {Undef, Str(<<>>), Str(<<"0", ".", "n", "a", "m", "e">>), Str(<<"0", ".", "m", "i", "s", "s", "i", "n", "g">>), Str(<<"0", ".", "s", "k", "u">>)}

MetaTagsPaths == {Undef, Str(<<"o", "g", ":", "t", "i", "t", "l", "e">>), Str(<<"m", "i", "s", "s", "i", "n", "g">>)}

DataLayersPaths == {Undef, Str(<<"d", "a", "t", "a", "L", "a", "y", "e", "r", "[", "0", "]", ".", "n", "a", "m", "e">>), Str(<<"d", "a", "t", "a", "L", "a", "y", "e", "r", "[", "5", "]", ".", "n", "a", "m", "e">>)}

MicrodataPaths == {Undef, Str(<<"0", ".", "n", "a", "m", "e">>), Str(<<"1", ".", "n", "a", "m", "e">>)}

CustomPaths == {Undef, Str(<<"n", "a", "m", "e">>), Str(<<"m", "i", "s", "s", "i", "n", "g">>)}

\* selectors that differ in their paths
PathSelectors ==
  {Selector(j, m, d, i, k, Undef, <<>>) :
     j \in JsonLdPaths, m \in MetaTagsPaths, d \in DataLayersPaths,
     i \in MicrodataPaths, k \in CustomPaths}

Transformation(type, pattern, flags, replacement) ==
  [type |-> type, pattern |-> pattern, flags |-> flags, replacement |-> replacement]

Transformations ==
  {Transformation("trim", Undef, Undef, Undef),
   Transformation("lowercase", Undef, Undef, Undef),
   Transformation("uppercase", Undef, Undef, Undef),
   Transformation("parseNumber", Undef, Undef, Undef),
   Transformation("parseBoolean", Undef, Undef, Undef),
   Transformation("regex", Str(<<"(", "[", "0", "-", "9", ".", "]", "+", ")">>), Undef, Undef),
   Transformation("regex", Str(<<"\\", "d", "+">>), Str(<<"g">>), Undef),
   Transformation("regex", Str(<<"(">>), Undef, Undef),
   Transformation("replace", Str(<<"[", "$", ",", "]">>), Str(<<"g">>), Str(<<"_">>)),
   Transformation("replace", Str(<<",">>), Undef, Str(<<>>))}

\* the longest list of transformations of a selector
MaxTransformations == 2

\* the standalone regex of a selector: none, the empty string, a group that
\* takes part in the match, a group that can capture the empty string, a
\* group that can stay out of the match, a pattern without a group, and a
\* pattern that does not compile
SelectorRegexes ==
  {Undef, Str(<<>>), Str(<<"(", "[", "0", "-", "9", ".", "]", "+", ")">>), Str(<<"(", "x", "*", ")", "[", "0", "-", "9", "e", "]">>), Str(<<"Y", "|", "(", "\\", "d", ")">>), Str(<<"[", "a", "-", "z", "]", "+">>),
   Str(<<"(">>)}

\* the single path of the selectors that differ in their transformations
\* and regex: to " Yes ", to "$1,399.00", to the number 1399
TransformPaths ==
  {[key |-> "metaTags", path |-> Str(<<"f", "l", "a", "g">>)],
   [key |-> "jsonLd", path |-> Str(<<"0", ".", "p", "r", "i", "c", "e">>)],
   [key |-> "dataLayers", path |-> Str(<<"d", "a", "t", "a", "L", "a", "y", "e", "r", "[", "0", "]", ".", "p", "r", "i", "c", "e">>)]}

\* the selector with one path, a regex and a list of transformations
TransformSelector(p, regex, transformations) ==
  [Selector(Undef, Undef, Undef, Undef, Undef, regex, transformations) EXCEPT ![p.key] = p.path]

\* the selectors of a recipe: a hit in jsonLd, a miss, a parsed price, the
\* sentinel with a fallback, a hit with a regex that does not compile, a
\* miss in jsonLd with a fallback to dataLayers
RecipeSelectors ==
  {Selector(Str(<<"0", ".", "n", "a", "m", "e">>), Undef, Undef, Undef, Undef, Undef, <<>>),
   Selector(Str(<<"0", ".", "m", "i", "s", "s", "i", "n", "g">>), Undef, Undef, Undef, Undef, Undef, <<>>),
   Selector(Str(<<"0", ".", "p", "r", "i", "c", "e">>), Undef, Undef, Undef, Undef, Undef,
            <<Transformation("parseNumber", Undef, Undef, Undef)>>),
   Selector(Str(<<"0", ".", "s", "k", "u">>), Str(<<"o", "g", ":", "t", "i", "t", "l", "e">>), Undef, Undef, Undef, Undef, <<>>),
   Selector(Undef, Undef, Undef, Str(<<"0", ".", "n", "a", "m", "e">>), Undef, Str(<<"(">>), <<>>),
   Selector(Str(<<"0", ".", "o", "f", "f", "e", "r", "s", ".", "p", "r", "i", "c", "e">>), Undef, Str(<<"d", "a", "t", "a", "L", "a", "y", "e", "r", "[", "0", "]", ".", "p", "r", "i", "c", "e">>), Undef, Undef, Undef, <<>>)}

\* payloads with malformed sources: scalars in the place of every source; a
\* scalar jsonLd beside well-formed sources; a placeholder block
\* { error, content } in jsonLd and a null dataLayers; nulls, an array and
\* an object without a string form inside the blocks; a mapping in the
\* place of the jsonLd sequence and sequences in the place of the mappings
MalformedPayloads ==
  {Payload(Str(<<"o", "o", "p", "s">>), Num(5), Null, Bool(TRUE), Str(<<"x">>)),
   Payload(Num(7), MetaTagsFull, DataLayersFull, MicrodataFull, CustomFull),
   Payload(Arr(<<Obj(<<P(<<"e", "r", "r", "o", "r">>, Str(<<"P", "a", "r", "s", "e", " ", "f", "a", "i", "l", "e", "d">>)), P(<<"c", "o", "n", "t", "e", "n", "t">>, Str(<<"{", "b", "a", "d">>))>>)>>),
           MetaTagsFull, Null, Undef, Undef),
   Payload(Arr(<<Obj(<<P(<<"n", "a", "m", "e">>, Null), P(<<"p", "r", "i", "c", "e">>, Obj(<<P(K_toString, Num(1))>>)),
                       P(<<"s", "k", "u">>, Arr(<<>>)), P(<<"o", "f", "f", "e", "r", "s">>, Null)>>)>>),
           Obj(<<P(<<"o", "g", ":", "t", "i", "t", "l", "e">>, Null)>>),
           Obj(<<P(<<"d", "a", "t", "a", "L", "a", "y", "e", "r">>, Arr(<<Null, Obj(<<P(<<"p", "r", "i", "c", "e">>, Num(20))>>)>>))>>), Null, Null),
   Payload(Obj(<<P(<<"n", "a", "m", "e">>, Str(<<"T", "v">>))>>), Arr(<<Str(<<"o", "g", ":", "t", "i", "t", "l", "e">>)>>),
           Arr(<<DataLayersFull>>), MicrodataFull, Undef)}

\* the field names of a recipe, in the order of its entries
FieldNames == <<<<"p", "r", "o", "d", "u", "c", "t", "N", "a", "m", "e">>, <<"p", "r", "i", "c", "e">>, <<"s", "k", "u">>, <<"b", "r", "a", "n", "d", "N", "a", "m", "e">>>>

\* the largest number of entries of a recipe
MaxFields == 2

\* the entries of the recipe with the selectors f[1] .. f[n]
Recipe(f) == [i \in 1..Len(f) |-> [name |-> FieldNames[i], selector |-> f[i]]]

-----------------------------------------------------------------------------
(* The calls.  `version` is the processor's field; `data` is the payload    *)
(* the caller built for the call it makes, `call` that call with its other  *)
(* arguments and `ret` what it returned.                                    *)

Idle == [op |-> "idle"]

NoRet == Undef

\* evaluateStructuredDataPath(obj, path) called on its own
CallEvaluate ==
  /\ call.op = "idle"
  /\ \E obj \in EvalRoots, ts \in TokenSeqs :
       /\ call' = [op |-> "evaluateStructuredDataPath", obj |-> obj,
                   path |-> RenderPath(ts, 1), tokens |-> ts]
       /\ ret' = evaluateStructuredDataPath(obj, RenderPath(ts, 1))
  /\ UNCHANGED <<version, data, given, sites>>

\* the caller drops the payload and the result and is ready for the next
\* call
Done ==
  /\ call.op # "idle"
  /\ call' = Idle
  /\ ret' = NoRet
  /\ data' = Undef
  /\ UNCHANGED <<version, given, sites>>

\* export const STRUCTURED_DATA_VERSION = "1.0.0"   (line 234)
STRUCTURED_DATA_VERSION == <<"1", ".", "0", ".", "0">>

\* the version a processor is constructed with when it is given one
Versions == {<<"2", ".", "1">>}

ProcessSelectorCall(d, selector) ==
  /\ data' = d
  /\ call' = [op |-> "processSelector", selector |-> selector]
  /\ ret' = processSelector(d, selector)

\* processor.processSelector(data, selector): every payload with the
\* selectors that differ in their paths, the full and the bare payload with
\* the selectors that differ in their transformations and regex
CallProcessSelector ==
  /\ call.op = "idle"
  /\ \/ \E d \in Payloads, selector \in PathSelectors :
          ProcessSelectorCall(d, selector)
     \/ \E d \in {FullPayload, BarePayload}, p \in TransformPaths, regex \in SelectorRegexes,
            n \in 0..MaxTransformations :
          \E transformations \in [1..n -> Transformations] :
            ProcessSelectorCall(d, TransformSelector(p, regex, transformations))
  /\ UNCHANGED <<version, given, sites>>

\* processor.processRecipe(data, selectors)
CallProcessRecipe ==
  /\ call.op = "idle"
  /\ \E d \in Payloads \cup MalformedPayloads, n \in 0..MaxFields :
       \E f \in [1..n -> RecipeSelectors] :
         /\ data' = d
         /\ call' = [op |-> "processRecipe", selectors |-> Recipe(f)]
         /\ ret' = processRecipe(d, Recipe(f))
  /\ UNCHANGED <<version, given, sites>>

\* the strings applyTransformations is handed: what evaluateStructuredDataPath
\* returned for a leaf of the page's data
TransformValues ==
  {Str(<<"$", "1", ",", "3", "9", "9", ".", "0", "0">>), Str(<<"1", "3", "9", "9", ".", "0", "0">>), Str(<<"-", "5", ".", "5", "0">>), Str(<<".", "5">>), Str(<<"1", "0", "-", "2", "0">>),
   Str(<<"N", "Z", "$", " ", "2", "0">>), Str(<<"a", "b", "c">>), Str(<<"-">>), Str(<<>>), Str(<<" ", "Y", "e", "s", " ">>), Str(<<"Y", "E", "S">>),
   Str(<<"1">>), Str(<<"o", "n">>), Str(<<"E", "n", "a", "b", "l", "e", "d">>), Str(<<"t", "r", "u", "e">>), Str(<<"n", "o">>), Str(<<"a", ",", "b", ",", "a">>)}

\* the transformations of a list: those of Transformations, the example of
\* the README (README.md 128-137), a pattern with a group and one without,
\* with and without g, and replacements by the empty string
TransformationPool ==
  Transformations \cup
  {Transformation("regex", Str(<<"(", "[", "0", "-", "9", ".", "]", "+", ")">>), Str(<<"g">>), Undef),
   Transformation("regex", Str(<<"[", "a", "-", "z", "]", "+">>), Undef, Undef),
   Transformation("regex", Str(<<"(", "a", ")", ",">>), Str(<<"g">>), Undef),
   Transformation("regex", Str(<<"[", "0", "-", "9", "]", "(", "[", "0", "-", "9", "]", "*", ")">>), Undef, Undef),
   Transformation("replace", Str(<<"a">>), Undef, Str(<<"$", "&", "b">>)),
   Transformation("replace", Str(<<"[", "$", ",", "]">>), Str(<<"g">>), Str(<<>>)),
   Transformation("replace", Str(<<"a">>), Str(<<"g">>), Str(<<"x">>))}

\* this.applyTransformations(value, transformations), as processSelector
\* calls it (line 326)
CallApplyTransformations ==
  /\ call.op = "idle"
  /\ \E value \in TransformValues, n \in 0..MaxTransformations :
       \E transformations \in [1..n -> TransformationPool] :
         /\ data' = value
         /\ call' = [op |-> "applyTransformations", transformations |-> transformations]
         /\ ret' = applyTransformations(value, transformations)
  /\ UNCHANGED <<version, given, sites>>

\* constructor(version: string = STRUCTURED_DATA_VERSION) { this.version =
\* version }   (lines 305-307): the field after construction with the
\* argument v, Undef when no argument is given
constructor(v) == IF v = Undef THEN STRUCTURED_DATA_VERSION ELSE v.s

\* what a processor is constructed with: nothing, or one of the versions
ConstructorArgs == {Undef} \cup {Str(v) : v \in Versions}

\* a slip: the default returned whatever the processor was constructed with
getVersionDefault(this_version) == STRUCTURED_DATA_VERSION

\* getVersion()   (lines 458-460), for a processor whose field is
\* this_version
getVersion(this_version) == this_version

\* Array.isArray(v)
IsArray(v) == v.t = "arr"

\* the conjuncts of lines 445-451, which read the properties of d
ValidFields(d) ==
  IF IsThrow(GetProp(d, <<"j", "s", "o", "n", "L", "d">>)) THEN Throw("TypeError")
  ELSE Bool(/\ IsArray(GetProp(d, <<"j", "s", "o", "n", "L", "d">>))
            /\ TypeOf(GetProp(d, <<"m", "e", "t", "a", "T", "a", "g", "s">>)) = "object"
            /\ TypeOf(GetProp(d, <<"d", "a", "t", "a", "L", "a", "y", "e", "r", "s">>)) = "object"
            /\ TypeOf(GetProp(d, <<"u", "r", "l">>)) = "string"
            /\ TypeOf(GetProp(d, <<"p", "a", "g", "e", "T", "i", "t", "l", "e">>)) = "string"
            /\ TypeOf(GetProp(d, <<"t", "i", "m", "e", "s", "t", "a", "m", "p">>)) = "string"
            /\ TypeOf(GetProp(d, <<"e", "x", "t", "r", "a", "c", "t", "o", "r", "V", "e", "r", "s", "i", "o", "n">>)) = "string")

\* a slip: null not excluded before its properties are read
validateWithoutNullTest(d) ==
  IF TypeOf(d) # "object" THEN Bool(FALSE) ELSE ValidFields(d)

\* static validateStructuredData(data)   (lines 441-453): a boolean, or a
\* Throw
validateStructuredData(d) ==
  IF TypeOf(d) # "object" THEN Bool(FALSE)
  ELSE IF d = Null THEN Bool(FALSE)
  ELSE ValidFields(d)

\* a candidate payload as the object a caller hands to
\* validateStructuredData; an absent property is written Undef
Candidate(jsonLd, metaTags, dataLayers, url, pageTitle, timestamp, extractorVersion) ==
  Obj(<<P(<<"j", "s", "o", "n", "L", "d">>, jsonLd), P(<<"m", "e", "t", "a", "T", "a", "g", "s">>, metaTags), P(<<"d", "a", "t", "a", "L", "a", "y", "e", "r", "s">>, dataLayers),
        P(<<"u", "r", "l">>, url), P(<<"p", "a", "g", "e", "T", "i", "t", "l", "e">>, pageTitle), P(<<"t", "i", "m", "e", "s", "t", "a", "m", "p">>, timestamp),
        P(<<"e", "x", "t", "r", "a", "c", "t", "o", "r", "V", "e", "r", "s", "i", "o", "n">>, extractorVersion)>>)

\* candidates that are no payload object at all
BareCandidates ==
  {Null, Undef, Bool(TRUE), Num(0), Num(7), Str(<<>>), Str(<<"h", "t", "t", "p", "s", ":", "/", "/", "s", "h", "o", "p", ".", "n", "z", "/", "t", "v">>), Arr(<<>>),
   Arr(<<JsonLdFull>>), Obj(<<>>), Fn(K_toString)}

\* what a candidate carries as jsonLd: sequences, and values that are none
JsonLdCandidates ==
  {Arr(<<>>), JsonLdFull, Str(<<"n", "o", "t", " ", "a", "n", " ", "a", "r", "r", "a", "y">>), Obj(<<>>), Null, Undef}

\* what a candidate carries as metaTags or dataLayers
MappingCandidates == {Obj(<<>>), MetaTagsFull, Null, Arr(<<>>), Str(<<"h", "t", "t", "p", "s", ":", "/", "/", "s", "h", "o", "p", ".", "n", "z", "/", "t", "v">>), Undef}

\* what a candidate carries where a string is expected
StringCandidates == {Str(<<"h", "t", "t", "p", "s", ":", "/", "/", "s", "h", "o", "p", ".", "n", "z", "/", "t", "v">>), Str(<<>>), Num(0), Undef}

\* StructuredDataProcessor.validateStructuredData(candidate)
CallValidate ==
  /\ call.op = "idle"
  /\ \E d \in BareCandidates \cup
              {Candidate(j, m, l, u, t, Str(<<"h", "t", "t", "p", "s", ":", "/", "/", "s", "h", "o", "p", ".", "n", "z", "/", "t", "v">>), x) :
                 j \in JsonLdCandidates, m \in MappingCandidates,
                 l \in {DataLayersFull, Null, Num(1)}, u \in StringCandidates,
                 t \in {Str(<<"h", "t", "t", "p", "s", ":", "/", "/", "s", "h", "o", "p", ".", "n", "z", "/", "t", "v">>), Null}, x \in {Str(<<"1", ".", "0", ".", "0">>), Bool(TRUE)}} \cup
              {Candidate(JsonLdFull, MetaTagsFull, DataLayersFull, Str(<<"h", "t", "t", "p", "s", ":", "/", "/", "s", "h", "o", "p", ".", "n", "z", "/", "t", "v">>), Str(<<"h", "t", "t", "p", "s", ":", "/", "/", "s", "h", "o", "p", ".", "n", "z", "/", "t", "v">>), t,
                         Str(<<"1", ".", "0", ".", "0">>)) : t \in StringCandidates} :
       /\ call' = [op |-> "validateStructuredData", data |-> d]
       /\ ret' = validateStructuredData(d)
  /\ UNCHANGED <<version, data, given, sites>>

\* processor.getVersion()
CallGetVersion ==
  /\ call.op = "idle"
  /\ call' = [op |-> "getVersion"]
  /\ ret' = getVersion(version)
  /\ UNCHANGED <<version, data, given, sites>>

\* the call sites of the shared processor: none here, where one caller makes
\* one call at a time
NoSites == <<>>

\* new StructuredDataProcessor(given), or new StructuredDataProcessor()
\* when given is Undef; no call made yet
Init ==
  /\ given \in ConstructorArgs
  /\ version = constructor(given)
  /\ sites = NoSites
  /\ data = Undef
  /\ call = Idle
  /\ ret = NoRet

Next == CallProcessSelector \/ CallProcessRecipe \/ CallValidate \/ CallGetVersion \/ Done

Spec == Init /\ [][Next]_vars

InitEval ==
  /\ given = Undef
  /\ version = STRUCTURED_DATA_VERSION
  /\ sites = NoSites
  /\ data = Undef
  /\ call = Idle
  /\ ret = NoRet

NextEval == CallEvaluate \/ Done

SpecEval == InitEval /\ [][NextEval]_vars

\* The call sites: callers that hold the same processor and the same
\* payload and call processSelector and processRecipe in any order.  A site
\* is idle, in the loop of processRecipe before the entry at position i with
\* the local `result` built so far, or back from its call with what it
\* returned in `ret`.  `selectors` are the arguments of its call: the entries
\* of the recipe, or the one selector of processSelector.  Here `data` is
\* the shared payload, and `call` and `ret` keep the first processSelector
\* call made on the processor and what it returned.
Sites == {1, 2}

IdleSite ==
  [pc |-> "idle", op |-> "none", selectors |-> <<>>, i |-> 0, result |-> <<>>, ret |-> NoRet]

\* the selectors the sites use: a price with a transformation, which the
\* payload without jsonLd does not resolve, and the sentinel with a fallback
SiteSelectors ==
  {Selector(Str(<<"0", ".", "p", "r", "i", "c", "e">>), Undef, Undef, Undef, Undef, Undef,
            <<Transformation("parseNumber", Undef, Undef, Undef)>>),
   Selector(Str(<<"0", ".", "s", "k", "u">>), Str(<<"o", "g", ":", "t", "i", "t", "l", "e">>), Undef, Undef, Undef, Undef, <<>>)}

\* the largest number of entries of a recipe of a site
MaxSiteFields == 2

\* the payloads the sites share: a well-formed one, one without jsonLd
SharedPayloads ==
  {FullPayload, Payload(Undef, MetaTagsFull, DataLayersFull, MicrodataFull, CustomFull)}

\* a slip: the processor keeps that it was called and answers null from
\* then on
SharedSelectDrifting(selector) ==
  IF call.op = "idle" THEN processSelector(data, selector) ELSE NullResult

\* this.processSelector(data, selector) on the shared processor and payload
\* (lines 312-347, and line 356 inside processRecipe)
SharedSelect(selector) == processSelector(data, selector)

\* a slip: one result mapping for all the calls, that of the first site
AccumulatorOfFirstSite(s) == sites[1].result

\* const result: ProductData = {}   (line 353): the mapping of the call of
\* site s
Accumulator(s) == sites[s].result

\* if (extracted) result[fieldName] = extracted   (lines 357-359)
Kept(result, name, extracted) ==
  IF extracted.k = "field" THEN Append(result, [name |-> name, field |-> extracted])
  ELSE result

\* the site after one turn of the loop of processRecipe (lines 355-360):
\* an exception of processSelector leaves processRecipe
Turn(site, result, extracted) ==
  IF extracted.k = "throw" THEN [site EXCEPT !.pc = "returned", !.ret = RaisedProduct]
  ELSE [site EXCEPT !.i = site.i + 1,
                    !.result = Kept(result, site.selectors[site.i].name, extracted)]

\* the first processSelector call on the processor is kept in call and ret
FirstCall(selector, result) ==
  IF call.op = "idle"
  THEN call' = [op |-> "processSelector", selector |-> selector] /\ ret' = result
  ELSE UNCHANGED <<call, ret>>

\* site s calls processor.processSelector(data, selector) and has its
\* result
SiteCallSelector(s) ==
  /\ sites[s].pc = "idle"
  /\ \E selector \in SiteSelectors :
       /\ sites' = [sites EXCEPT ![s] =
                      [pc |-> "returned", op |-> "processSelector",
                       selectors |-> <<[name |-> <<>>, selector |-> selector]>>,
                       i |-> 0, result |-> <<>>, ret |-> SharedSelect(selector)]]
       /\ FirstCall(selector, SharedSelect(selector))
  /\ UNCHANGED <<version, given, data>>

\* site s calls processor.processRecipe(data, selectors): line 353
SiteCallRecipe(s) ==
  /\ sites[s].pc = "idle"
  /\ \E n \in 0..MaxSiteFields :
       \E f \in [1..n -> SiteSelectors] :
         sites' = [sites EXCEPT ![s] =
                     [pc |-> "loop", op |-> "processRecipe", selectors |-> Recipe(f),
                      i |-> 1, result |-> <<>>, ret |-> NoRet]]
  /\ UNCHANGED <<version, given, data, call, ret>>

\* a slip: the transformations taken off the selector's own list while
\* they are applied
SiteLoopShifting(s) ==
  /\ sites[s].pc = "loop"
  /\ sites[s].i <= Len(sites[s].selectors)
  /\ sites' = [sites EXCEPT ![s] =
                 [Turn(sites[s], Accumulator(s),
                       SharedSelect(sites[s].selectors[sites[s].i].selector))
                    EXCEPT !.selectors[sites[s].i].selector.transformations = <<>>]]
  /\ UNCHANGED <<version, given, data, call, ret>>

\* one turn of the loop of processRecipe at site s (lines 355-360)
SiteLoop(s) ==
  /\ sites[s].pc = "loop"
  /\ sites[s].i <= Len(sites[s].selectors)
  /\ sites' = [sites EXCEPT ![s] =
                 Turn(sites[s], Accumulator(s),
                      SharedSelect(sites[s].selectors[sites[s].i].selector))]
  /\ UNCHANGED <<version, given, data, call, ret>>

\* return result   (line 362)
SiteReturn(s) ==
  /\ sites[s].pc = "loop"
  /\ sites[s].i > Len(sites[s].selectors)
  /\ sites' = [sites EXCEPT ![s] = [sites[s] EXCEPT !.pc = "returned",
                                                     !.ret = Product(Accumulator(s))]]
  /\ UNCHANGED <<version, given, data, call, ret>>

\* site s drops the result and the arguments of its call
SiteDone(s) ==
  /\ sites[s].pc = "returned"
  /\ sites' = [sites EXCEPT ![s] = IdleSite]
  /\ UNCHANGED <<version, given, data, call, ret>>

\* one processor and one payload, handed to every site
InitShared ==
  /\ given \in ConstructorArgs
  /\ version = constructor(given)
  /\ data \in SharedPayloads
  /\ sites = [s \in Sites |-> IdleSite]
  /\ call = Idle
  /\ ret = NoRet

NextShared ==
  \E s \in Sites :
    SiteCallSelector(s) \/ SiteCallRecipe(s) \/ SiteLoop(s) \/ SiteReturn(s) \/ SiteDone(s)

SpecShared == InitShared /\ [][NextShared]_vars

NextTransform == CallApplyTransformations \/ Done

\* a default processor, whose processSelector calls applyTransformations
SpecTransform == InitEval /\ [][NextTransform]_vars

-----------------------------------------------------------------------------
(* The DOM extractors, browser.ts 12-217.  A document is the sequence of    *)
(* its elements in document order; each element has its tag, its           *)
(* attributes, the text it holds before its first child, and its depth in  *)
(* the tree: the parent of an element is the nearest element before it     *)
(* that is one level up.                                                   *)

Attr(k, v) == [k |-> k, v |-> v]

Element(tag, attrs, text, depth) ==
  [tag |-> tag, attrs |-> attrs, text |-> text, depth |-> depth]

\* element.hasAttribute(name) and element.getAttribute(name): the value of
\* the attribute, null when the element does not have it
hasAttribute(el, name) == \E i \in 1..Len(el.attrs) : el.attrs[i].k = name

getAttribute(el, name) ==
  IF hasAttribute(el, name)
  THEN Str(el.attrs[CHOOSE i \in 1..Len(el.attrs) : el.attrs[i].k = name].v)
  ELSE Null

\* element.parentElement as a position in the document, 0 for none
parentElement(nodes, i) ==
  IF nodes[i].depth = 0 THEN 0
  ELSE CHOOSE j \in 1..(i - 1) :
         /\ nodes[j].depth = nodes[i].depth - 1
         /\ \A k \in (j + 1)..(i - 1) : nodes[k].depth >= nodes[i].depth

\* element i is inside element root (root = 0: the document)
RECURSIVE Inside(_, _, _)
Inside(nodes, root, i) ==
  IF root = 0 THEN TRUE
  ELSE IF parentElement(nodes, i) = 0 THEN FALSE
  ELSE parentElement(nodes, i) = root \/ Inside(nodes, root, parentElement(nodes, i))

\* root.querySelectorAll(selector): the positions of the elements inside
\* root that match, in document order
querySelectorAll(nodes, root, Matches(_)) ==
  SelectSeq([i \in 1..Len(nodes) |-> i],
            LAMBDA i : Inside(nodes, root, i) /\ Matches(nodes[i]))

\* element.textContent: the text of the element and of the elements inside
\* it, in document order
RECURSIVE TextFrom(_, _, _)
TextFrom(nodes, root, i) ==
  IF i > Len(nodes) THEN <<>>
  ELSE (IF i = root \/ Inside(nodes, root, i) THEN nodes[i].text ELSE <<>>)
         \o TextFrom(nodes, root, i + 1)

textContent(nodes, i) == TextFrom(nodes, i, i)

\* obj[key] = value on the own properties f of an object: a new key goes
\* last, a key the object has keeps its place
SetOwn(f, key, value) ==
  IF \E i \in 1..Len(f) : f[i].k = key
  THEN [i \in 1..Len(f) |-> IF f[i].k = key THEN P(key, value) ELSE f[i]]
  ELSE Append(f, P(key, value))

\* JSON.parse (line 20) of texts whose strings have no escape sequence and
\* whose numbers have no exponent: a step of the parser gives the value
\* read and the position after it, or fails
JsonFail == [ok |-> FALSE, v |-> Undef, i |-> 0]

JsonOk(v, i) == [ok |-> TRUE, v |-> v, i |-> i]

JsonWhite == {" ", "\t", "\n", "\r"}

RECURSIVE SkipWhite(_, _)
SkipWhite(s, i) == IF i <= Len(s) /\ s[i] \in JsonWhite THEN SkipWhite(s, i + 1) ELSE i

StartsWith(s, i, w) == i + Len(w) - 1 <= Len(s) /\ SubSeq(s, i, i + Len(w) - 1) = w

\* the position of the quote that closes the string whose characters start
\* at i, 0 when the string is not closed on its line
RECURSIVE StringEnd(_, _)
StringEnd(s, i) ==
  IF i > Len(s) THEN 0
  ELSE IF s[i] = "\"" THEN i
  ELSE IF s[i] \in {"\t", "\n", "\r"} THEN 0
  ELSE StringEnd(s, i + 1)

StringUpTo(s, i, e) == IF e = 0 THEN JsonFail ELSE JsonOk(Str(SubSeq(s, i + 1, e - 1)), e + 1)

\* a string that starts with the quote at i
ParseString(s, i) == StringUpTo(s, i, StringEnd(s, i + 1))

\* a number that starts at i:  -? (0 | [1-9] digits) (. digits)?
ParseNumber(s, i) ==
  LET b == IF s[i] = "-" THEN i + 1 ELSE i
      e1 == DigitRunEnd(s, b)
      hasDot == e1 <= Len(s) /\ s[e1] = "."
      e2 == IF hasDot THEN DigitRunEnd(s, e1 + 1) ELSE e1
  IN  IF e1 = b \/ (e1 > b + 1 /\ s[b] = "0") \/ (hasDot /\ e2 = e1 + 1) THEN JsonFail
      ELSE JsonOk(ParseFloat(SubSeq(s, i, e2 - 1)).v, e2)

RECURSIVE ParseValue(_, _)
RECURSIVE ParseElements(_, _, _, _)
RECURSIVE ParseMembers(_, _, _, _)

\* after an element whose value ended before j: a comma and the next
\* element, or the end of the array
ElementSeparator(s, j, acc) ==
  IF j > Len(s) THEN JsonFail
  ELSE IF s[j] = "," THEN ParseElements(s, SkipWhite(s, j + 1), acc, FALSE)
  ELSE IF s[j] = "]" THEN JsonOk(Arr(acc), j + 1)
  ELSE JsonFail

AfterElement(s, r, acc) ==
  IF ~r.ok THEN JsonFail ELSE ElementSeparator(s, SkipWhite(s, r.i), Append(acc, r.v))

\* the elements of an array from position i on, acc being those read
ParseElements(s, i, acc, first) ==
  IF i > Len(s) THEN JsonFail
  ELSE IF first /\ s[i] = "]" THEN JsonOk(Arr(acc), i + 1)
  ELSE AfterElement(s, ParseValue(s, i), acc)

MemberSeparator(s, j, acc) ==
  IF j > Len(s) THEN JsonFail
  ELSE IF s[j] = "," THEN ParseMembers(s, SkipWhite(s, j + 1), acc, FALSE)
  ELSE IF s[j] = "}" THEN JsonOk(Obj(acc), j + 1)
  ELSE JsonFail

AfterMember(s, key, r, acc) ==
  IF ~r.ok THEN JsonFail ELSE MemberSeparator(s, SkipWhite(s, r.i), SetOwn(acc, key, r.v))

AfterColon(s, key, j, acc) ==
  IF j > Len(s) THEN JsonFail
  ELSE IF s[j] # ":" THEN JsonFail
  ELSE AfterMember(s, key, ParseValue(s, SkipWhite(s, j + 1)), acc)

AfterKey(s, k, acc) ==
  IF ~k.ok THEN JsonFail ELSE AfterColon(s, k.v.s, SkipWhite(s, k.i), acc)

\* the members of an object from position i on, acc being those read
ParseMembers(s, i, acc, first) ==
  IF i > Len(s) THEN JsonFail
  ELSE IF first /\ s[i] = "}" THEN JsonOk(Obj(acc), i + 1)
  ELSE IF s[i] # "\"" THEN JsonFail
  ELSE AfterKey(s, ParseString(s, i), acc)

ParseValue(s, i) ==
  IF i > Len(s) THEN JsonFail
  ELSE CASE s[i] = "{" -> ParseMembers(s, SkipWhite(s, i + 1), <<>>, TRUE)
         [] s[i] = "[" -> ParseElements(s, SkipWhite(s, i + 1), <<>>, TRUE)
         [] s[i] = "\"" -> ParseString(s, i)
         [] s[i] = "-" \/ IsDigit(s[i]) -> ParseNumber(s, i)
         [] StartsWith(s, i, <<"t", "r", "u", "e">>) -> JsonOk(Bool(TRUE), i + 4)
         [] StartsWith(s, i, <<"f", "a", "l", "s", "e">>) -> JsonOk(Bool(FALSE), i + 5)
         [] StartsWith(s, i, <<"n", "u", "l", "l">>) -> JsonOk(Null, i + 4)
         [] OTHER -> JsonFail

\* the text is one value between white space, or a SyntaxError
WholeText(s, r) ==
  IF r.ok /\ SkipWhite(s, r.i) > Len(s) THEN r.v ELSE Throw("SyntaxError")

JSONParse(text) == WholeText(text, ParseValue(text, SkipWhite(text, 1)))

K_error == <<"e", "r", "r", "o", "r">>

K_content == <<"c", "o", "n", "t", "e", "n", "t">>

\* a slip: the placeholder without the text of the block
InvalidJsonOnly(text) == Obj(<<P(K_error, Str(<<"I", "n", "v", "a", "l", "i", "d", " ", "J", "S", "O", "N">>))>>)

\* catch (e) { return { error: 'Invalid JSON', content: script.textContent } }
InvalidJson(text) == Obj(<<P(K_error, Str(<<"I", "n", "v", "a", "l", "i", "d", " ", "J", "S", "O", "N">>)), P(K_content, Str(text))>>)

\* the body of the map callback (lines 19-23); script.textContent || '' is
\* the text itself, a string
ParsedOrPlaceholder(parsed, text) == IF IsThrow(parsed) THEN InvalidJson(text) ELSE parsed

ParseScript(text) == ParsedOrPlaceholder(JSONParse(text), text)

\* script[type="application/ld+json"]
IsJsonLdScript(el) ==
  el.tag = "SCRIPT" /\ getAttribute(el, "type") = Str(<<"a", "p", "p", "l", "i", "c", "a", "t", "i", "o", "n", "/", "l", "d", "+", "j", "s", "o", "n">>)

\* jsonLdScripts.map(...) over the scripts at the positions scripts
MapScripts(nodes, scripts) ==
  [k \in 1..Len(scripts) |-> ParseScript(textContent(nodes, scripts[k]))]

\* export const extractJsonLdData = (document) => ...   (lines 15-25)
extractJsonLdData(nodes) == Arr(MapScripts(nodes, querySelectorAll(nodes, 0, IsJsonLdScript)))

IsMeta(el) == el.tag = "META"

\* the body of the forEach callback (lines 35-38): the key is the property
\* attribute, or the name when there is none or it is empty
MetaTag(metaTags, tag) ==
  IF Truthy(Or(getAttribute(tag, "property"), getAttribute(tag, "name")))
  THEN SetOwn(metaTags, Or(getAttribute(tag, "property"), getAttribute(tag, "name")).s,
              Or(getAttribute(tag, "content"), Str(<<>>)))
  ELSE metaTags

RECURSIVE MetaTagsFrom(_, _, _, _)
MetaTagsFrom(nodes, metaElements, k, metaTags) ==
  IF k > Len(metaElements) THEN metaTags
  ELSE MetaTagsFrom(nodes, metaElements, k + 1, MetaTag(metaTags, nodes[metaElements[k]]))

\* export const extractMetaTags = (document) => ...   (lines 30-42)
extractMetaTags(nodes) == Obj(MetaTagsFrom(nodes, querySelectorAll(nodes, 0, IsMeta), 1, <<>>))

K_dataLayer == <<"d", "a", "t", "a", "L", "a", "y", "e", "r">>

\* const commonDataLayerNames = ['dataLayer', 'digitalData', 'utag_data']
commonDataLayerNames == <<K_dataLayer, <<"d", "i", "g", "i", "t", "a", "l", "D", "a", "t", "a">>, <<"u", "t", "a", "g", "_", "d", "a", "t", "a">>>>

RECURSIVE DataLayersFrom(_, _, _)
DataLayersFrom(window, k, dataLayers) ==
  IF k > Len(commonDataLayerNames) THEN dataLayers
  ELSE DataLayersFrom(window, k + 1,
         IF Truthy(GetProp(window, commonDataLayerNames[k]))
         THEN SetOwn(dataLayers, commonDataLayerNames[k], GetProp(window, commonDataLayerNames[k]))
         ELSE dataLayers)

\* export const extractDataLayers = (window) => ...   (lines 47-58); reading
\* a register of a window that is null or undefined raises
extractDataLayers(window) ==
  IF IsNullish(window) THEN Throw("TypeError") ELSE Obj(DataLayersFrom(window, 1, <<>>))

HasItemscope(el) == hasAttribute(el, "itemscope")

HasItemprop(el) == hasAttribute(el, "itemprop")

\* a slip: every property inside the scope taken, nested scopes included
BelongsToAny(nodes, element, parent) == TRUE

\* the while loop of the filter (lines 79-85), parent being the cursor
RECURSIVE BelongsTo(_, _, _)
BelongsTo(nodes, element, parent) ==
  IF parent = 0 \/ parent = element THEN TRUE
  ELSE IF HasItemscope(nodes[parent]) THEN FALSE
  ELSE BelongsTo(nodes, element, parentElement(nodes, parent))

\* Array.from(element.querySelectorAll('[itemprop]')).filter(...)
Properties(nodes, element) ==
  SelectSeq(querySelectorAll(nodes, element, HasItemprop),
            LAMBDA p : BelongsTo(nodes, element, parentElement(nodes, p)))

\* prop.textContent?.trim() || null
TrimmedText(nodes, p) == Or(Str(Trim(textContent(nodes, p))), Null)

\* the value of a property (lines 92-106)
PropertyValue(nodes, p) ==
  IF hasAttribute(nodes[p], "content") THEN getAttribute(nodes[p], "content")
  ELSE IF nodes[p].tag = "META" THEN getAttribute(nodes[p], "content")
  ELSE IF nodes[p].tag = "TIME"
       THEN Or(getAttribute(nodes[p], "datetime"), TrimmedText(nodes, p))
  ELSE IF nodes[p].tag = "IMG" THEN getAttribute(nodes[p], "src")
  ELSE IF nodes[p].tag = "A" THEN getAttribute(nodes[p], "href")
  ELSE TrimmedText(nodes, p)

\* the body of properties.forEach (lines 90-111)
WithProperty(nodes, item, p) ==
  IF Truthy(getAttribute(nodes[p], "itemprop")) /\ Truthy(PropertyValue(nodes, p))
  THEN SetOwn(item, getAttribute(nodes[p], "itemprop").s, PropertyValue(nodes, p))
  ELSE item

RECURSIVE WithProperties(_, _, _, _)
WithProperties(nodes, properties, k, item) ==
  IF k > Len(properties) THEN item
  ELSE WithProperties(nodes, properties, k + 1, WithProperty(nodes, item, properties[k]))

K_type == <<"@", "t", "y", "p", "e">>

\* item['@type'] = itemtype, when the element has one (lines 70-73)
TypedItem(el) ==
  IF Truthy(getAttribute(el, "itemtype")) THEN <<P(K_type, getAttribute(el, "itemtype"))>>
  ELSE <<>>

\* the body of the map callback (lines 67-114)
MicrodataItem(nodes, element) ==
  Obj(WithProperties(nodes, Properties(nodes, element), 1, TypedItem(nodes[element])))

MapScopes(nodes, microdataElements) ==
  [k \in 1..Len(microdataElements) |-> MicrodataItem(nodes, microdataElements[k])]

\* export const extractMicrodata = (document) => ...   (lines 63-116)
extractMicrodata(nodes) == Arr(MapScopes(nodes, querySelectorAll(nodes, 0, HasItemscope)))

\* the document a BrowserDataExtractor is constructed with: a DOM document
\* ("dom") with its elements and its title, null or undefined ("none"), an
\* object without querySelectorAll ("bare"), or a document whose
\* querySelectorAll raises ("failing")
Document(kind, nodes, title) == [kind |-> kind, nodes |-> nodes, title |-> title]

K_location == <<"l", "o", "c", "a", "t", "i", "o", "n">>

K_href == <<"h", "r", "e", "f">>

\* this.window.location?.href
LocationHref(window) ==
  IF IsNullish(GetProp(window, K_location)) THEN Undef
  ELSE GetProp(GetProp(window, K_location), K_href)

\* a slip: the url without its default
UrlWithoutDefault(window) == LocationHref(window)

\* url: this.window.location?.href || ''   (line 144)
Url(window) == Or(LocationHref(window), Str(<<>>))

\* extractAll()   (lines 133-149); now is what new Date().toISOString()
\* gives.  It raises when the document cannot be queried or the window is
\* null or undefined.
extractAll(document, window, now) ==
  IF document.kind # "dom" THEN Throw("TypeError")
  ELSE IF IsThrow(extractDataLayers(window)) THEN extractDataLayers(window)
  ELSE Obj(<<P(<<"j", "s", "o", "n", "L", "d">>, extractJsonLdData(document.nodes)),
             P(<<"m", "e", "t", "a", "T", "a", "g", "s">>, extractMetaTags(document.nodes)),
             P(<<"d", "a", "t", "a", "L", "a", "y", "e", "r", "s">>, extractDataLayers(window)),
             P(<<"m", "i", "c", "r", "o", "d", "a", "t", "a">>, extractMicrodata(document.nodes)),
             P(<<"u", "r", "l">>, Url(window)),
             P(<<"p", "a", "g", "e", "T", "i", "t", "l", "e">>, Or(Str(document.title), Str(<<>>))),
             P(<<"t", "i", "m", "e", "s", "t", "a", "m", "p">>, Str(now)),
             P(<<"e", "x", "t", "r", "a", "c", "t", "o", "r", "V", "e", "r", "s", "i", "o", "n">>, Str(<<"1", ".", "0", ".", "0">>))>>)

\* a && b
And(a, b) == IF Truthy(a) THEN b ELSE a

\* meta[property], meta[name]
IsKeyedMeta(el) ==
  el.tag = "META" /\ (hasAttribute(el, "property") \/ hasAttribute(el, "name"))

\* this.window && this.window.dataLayer && Array.isArray(this.window.dataLayer)
\*   && this.window.dataLayer.length > 0   (line 198)
hasDataLayer(window) ==
  And(And(And(window, GetProp(window, K_dataLayer)),
          Bool(IsArray(GetProp(window, K_dataLayer)))),
      Bool(Len(GetProp(window, K_dataLayer).e) > 0))

\* jsonLd.length > 0 || metaTags.length > 0 || microdata.length > 0 || hasDataLayer
AnySource(nodes, window) ==
  Or(Or(Or(Bool(Len(querySelectorAll(nodes, 0, IsJsonLdScript)) > 0),
           Bool(Len(querySelectorAll(nodes, 0, IsKeyedMeta)) > 0)),
        Bool(Len(querySelectorAll(nodes, 0, HasItemscope)) > 0)),
     hasDataLayer(window))

\* hasStructuredData()   (lines 188-205): false without a document that
\* can be queried (line 190) and when the query raises (line 202)
hasStructuredData(document, window) ==
  IF document.kind \in {"none", "bare"} THEN Bool(FALSE)
  ELSE IF document.kind = "failing" THEN Bool(FALSE)
  ELSE AnySource(document.nodes, window)

-----------------------------------------------------------------------------
(* Inputs of the extractors *)

\* the elements that can have children
IsContainer(el) == el.tag = "DIV"

\* the depths at which an element can follow the elements of nodes: at the
\* top, beside an element before it, or inside the last one
NextDepths(nodes) ==
  IF Len(nodes) = 0 THEN {0}
  ELSE 0..(nodes[Len(nodes)].depth + (IF IsContainer(nodes[Len(nodes)]) THEN 1 ELSE 0))

\* the documents of at most n elements taken from kinds
RECURSIVE Forests(_, _)
Forests(kinds, n) ==
  IF n = 0 THEN {<<>>}
  ELSE Forests(kinds, n - 1) \cup
       UNION {{Append(nodes, Element(k.tag, k.attrs, k.text, d)) : k \in kinds, d \in NextDepths(nodes)} :
                nodes \in {x \in Forests(kinds, n - 1) : Len(x) = n - 1}}

\* the largest number of elements of a document given to one extractor
MaxElements == 3

\* the largest number of elements of the document of a BrowserDataExtractor
MaxPageElements == 2

PlainDiv == Element("DIV", <<>>, <<>>, 0)

JsonLdScript(text) ==
  Element("SCRIPT", <<Attr("type", <<"a", "p", "p", "l", "i", "c", "a", "t", "i", "o", "n", "/", "l", "d", "+", "j", "s", "o", "n">>)>>, text, 0)

\* the texts of the script blocks: an object, a nested value between white
\* space, a value followed by something else, a text that stops short, no
\* text, the word null
JsonTexts ==
  {<<"{", "\"", "n", "a", "m", "e", "\"", ":", "\"", "T", "v", "\"", ",", "\"", "p", "r", "i", "c", "e", "\"", ":", "2", "0", "}">>, <<" ", "{", "\"", "a", "\"", ":", " ", "[", "t", "r", "u", "e", ",", " ", "-", "1", ".", "5", ",", " ", "{", "}", "]", "}", " ">>, <<"[", "1", "]", " ", "x">>, <<"{", "\"", "n", "a", "m", "e", "\"", ":">>, <<>>, <<"n", "u", "l", "l">>}

JsonLdKinds ==
  {JsonLdScript(t) : t \in JsonTexts}
    \cup {Element("SCRIPT", <<Attr("type", <<"t", "e", "x", "t", "/", "j", "a", "v", "a", "s", "c", "r", "i", "p", "t">>)>>, <<"[", "7", "]">>, 0), PlainDiv}

JsonLdDocuments == Forests(JsonLdKinds, MaxElements)

\* a scope with a type, a scope that is the property of the scope around
\* it, properties read from their text, their content and their href, a
\* property without a value and an element that is neither
MicrodataKinds ==
  {Element("DIV", <<Attr("itemscope", <<>>), Attr("itemtype", <<"P", "r", "o", "d", "u", "c", "t">>)>>, <<>>, 0),
   Element("DIV", <<Attr("itemprop", <<"o", "f", "f", "e", "r", "s">>), Attr("itemscope", <<>>), Attr("itemtype", <<"O", "f", "f", "e", "r">>)>>, <<>>, 0),
   Element("SPAN", <<Attr("itemprop", <<"n", "a", "m", "e">>)>>, <<" ", "T", "v", " ">>, 0),
   Element("SPAN", <<Attr("itemprop", <<"s", "k", "u">>)>>, <<"S", "1">>, 0),
   Element("META", <<Attr("itemprop", <<"p", "r", "i", "c", "e">>), Attr("content", <<"2", "0">>)>>, <<>>, 0),
   Element("A", <<Attr("itemprop", <<"u", "r", "l">>), Attr("href", <<"/", "t", "v">>)>>, <<"m", "o", "r", "e">>, 0),
   Element("TIME", <<Attr("itemprop", <<"d", "a", "t", "e">>)>>, <<"2", "0", "2", "5">>, 0),
   Element("SPAN", <<Attr("itemprop", <<"n", "a", "m", "e">>)>>, <<" ">>, 0),
   PlainDiv}

MicrodataDocuments == Forests(MicrodataKinds, MaxElements)

\* the elements of a page: script blocks, meta tags with a property, with
\* an empty name and with neither, a scope, a property, a plain element
PageKinds ==
  {JsonLdScript(<<"{", "\"", "n", "a", "m", "e", "\"", ":", "\"", "T", "v", "\"", ",", "\"", "p", "r", "i", "c", "e", "\"", ":", "2", "0", "}">>),
   JsonLdScript(<<"{", "\"", "n", "a", "m", "e", "\"", ":">>),
   Element("META", <<Attr("property", <<"o", "g", ":", "t", "i", "t", "l", "e">>), Attr("content", <<"T", "v">>)>>, <<>>, 0),
   Element("META", <<Attr("name", <<>>), Attr("content", <<"x">>)>>, <<>>, 0),
   Element("META", <<Attr("charset", <<"u", "t", "f", "-", "8">>)>>, <<>>, 0),
   Element("DIV", <<Attr("itemscope", <<>>), Attr("itemtype", <<"P", "r", "o", "d", "u", "c", "t">>)>>, <<>>, 0),
   Element("SPAN", <<Attr("itemprop", <<"n", "a", "m", "e">>)>>, <<"T", "v">>, 0),
   PlainDiv}

\* the documents of a BrowserDataExtractor: pages with and without a title,
\* and the three that cannot be queried
Pages ==
  {Document("dom", nodes, title) :
     nodes \in Forests(PageKinds, MaxPageElements), title \in {<<>>, <<"T", "v", " ", "-", " ", "S", "h", "o", "p">>}}
    \cup {Document(kind, <<>>, <<>>) : kind \in {"none", "bare", "failing"}}

WindowLocation == P(K_location, Obj(<<P(K_href, Str(<<"h", "t", "t", "p", "s", ":", "/", "/", "s", "h", "o", "p", ".", "n", "z", "/", "t", "v">>))>>))

\* the windows: with and without a location; with a dataLayer that has
\* entries, has none, is no array; with the registers of Adobe and of
\* Tealium; null and undefined
Windows ==
  {Obj(<<WindowLocation>>),
   Obj(<<>>),
   Obj(<<WindowLocation, P(K_dataLayer, Arr(<<Obj(<<P(<<"p", "r", "i", "c", "e">>, Num(20))>>)>>))>>),
   Obj(<<P(K_dataLayer, Arr(<<Obj(<<P(<<"p", "r", "i", "c", "e">>, Num(20))>>)>>))>>),
   Obj(<<WindowLocation, P(K_dataLayer, Arr(<<>>))>>),
   Obj(<<WindowLocation, P(K_dataLayer, Obj(<<P(<<"p", "r", "i", "c", "e">>, Num(20))>>))>>),
   Obj(<<WindowLocation, P(<<"d", "i", "g", "i", "t", "a", "l", "D", "a", "t", "a">>, Obj(<<P(<<"p", "a", "g", "e">>, Str(<<"t", "v">>))>>))>>),
   Obj(<<WindowLocation, P(<<"u", "t", "a", "g", "_", "d", "a", "t", "a">>, Obj(<<P(<<"p", "a", "g", "e">>, Str(<<"t", "v">>))>>))>>),
   Null,
   Undef}

\* what the clock gives to new Date().toISOString()
Clock == {<<"2", "0", "2", "5", "-", "0", "1", "-", "2", "3", "T", "1", "0", ":", "3", "0", ":", "0", "0", ".", "0", "0", "0", "Z">>, <<"2", "0", "2", "5", "-", "0", "1", "-", "2", "3", "T", "1", "0", ":", "3", "0", ":", "0", "1", ".", "0", "0", "0", "Z">>}

-----------------------------------------------------------------------------
(* The calls of the extractors *)

\* extractJsonLdData(document) called on its own
CallExtractJsonLdData ==
  /\ call.op = "idle"
  /\ \E nodes \in JsonLdDocuments :
       /\ call' = [op |-> "extractJsonLdData", nodes |-> nodes]
       /\ ret' = extractJsonLdData(nodes)
  /\ UNCHANGED <<version, data, given, sites>>

\* extractMicrodata(document) called on its own
CallExtractMicrodata ==
  /\ call.op = "idle"
  /\ \E nodes \in MicrodataDocuments :
       /\ call' = [op |-> "extractMicrodata", nodes |-> nodes]
       /\ ret' = extractMicrodata(nodes)
  /\ UNCHANGED <<version, data, given, sites>>

\* new BrowserDataExtractor(document, window).extractAll()
CallExtractAll ==
  /\ call.op = "idle"
  /\ \E document \in Pages, window \in Windows, now \in Clock :
       /\ call' = [op |-> "extractAll", document |-> document, window |-> window]
       /\ ret' = extractAll(document, window, now)
  /\ UNCHANGED <<version, data, given, sites>>

\* new BrowserDataExtractor(document, window).hasStructuredData()
CallHasStructuredData ==
  /\ call.op = "idle"
  /\ \E document \in Pages, window \in Windows :
       /\ call' = [op |-> "hasStructuredData", document |-> document, window |-> window]
       /\ ret' = hasStructuredData(document, window)
  /\ UNCHANGED <<version, data, given, sites>>

NextExtract ==
  \/ CallExtractJsonLdData
  \/ CallExtractMicrodata
  \/ CallExtractAll
  \/ CallHasStructuredData
  \/ Done

SpecExtract == InitEval /\ [][NextExtract]_vars

-----------------------------------------------------------------------------
(* Claims about processSelector and processRecipe, checked under Spec *)

IsSelectorCall == call.op = "processSelector"

IsRecipeCall == call.op = "processRecipe"

\* the five sources in the order the specification gives them
SourceOrder == <<"jsonLd", "metaTags", "dataLayers", "microdata", "customDataLayers">>

Sources == {SourceOrder[i] : i \in 1..Len(SourceOrder)}

PositionOf(source) == CHOOSE i \in 1..Len(SourceOrder) : SourceOrder[i] = source

\* the confidence the specification fixes for a source, in tenths
ConfidenceOf(source) ==
  CASE source = "jsonLd" -> 9
    [] source = "metaTags" -> 8
    [] source = "dataLayers" -> 7
    [] source = "microdata" -> 6
    [] source = "customDataLayers" -> 5

\* what the selector's path for a source evaluates to in the payload
Evaluated(d, selector, source) ==
  evaluateStructuredDataPath(d[source], selector[source].s)

\* a source is a miss: the selector has no path for it, the payload lacks
\* it, or the path evaluates to null or to the sentinel
SourceMisses(d, selector, source) ==
  \/ selector[source] = Undef
  \/ d[source] = Undef
  \/ Evaluated(d, selector, source) \in {Null, Str(<<"N", "o", "t", " ", "f", "o", "u", "n", "d">>)}

SourceHits(d, selector, source) == ~SourceMisses(d, selector, source)

\* C1: for every payload and selector, the source named in the result of
\* processSelector is a hit and every source ordered before it (jsonLd,
\* metaTags, dataLayers, microdata, customDataLayers) is a miss; when the
\* jsonLd, metaTags and dataLayers paths all resolve, the result comes from
\* jsonLd.
C1_FirstHitWins ==
  IsSelectorCall /\ ret.k = "field" =>
    /\ ret.source \in Sources
    /\ SourceHits(data, call.selector, ret.source)
    /\ \A j \in 1..(PositionOf(ret.source) - 1) :
         SourceMisses(data, call.selector, SourceOrder[j])
    /\ (\A s \in {"jsonLd", "metaTags", "dataLayers"} : SourceHits(data, call.selector, s))
         => ret.source = "jsonLd"

\* the jsonLd, metaTags and dataLayers paths all resolve and jsonLd wins
C1_Witness ==
  /\ IsSelectorCall
  /\ ret.k = "field"
  /\ \A s \in {"jsonLd", "metaTags", "dataLayers"} : SourceHits(data, call.selector, s)
  /\ ret.source = "jsonLd"

\* a later source wins after two earlier ones, both with a path, missed
C1_WitnessLaterSource ==
  /\ IsSelectorCall
  /\ ret.k = "field"
  /\ ret.source = "dataLayers"
  /\ call.selector.jsonLd # Undef
  /\ call.selector.metaTags # Undef
  /\ SourceHits(data, call.selector, "microdata")

\* C2: every non-null result of processSelector carries the name of a
\* source, the selector's literal path string for that source, and the
\* confidence fixed for that source (0.9, 0.8, 0.7, 0.6, 0.5 in priority
\* order), whatever the value, the transformations and the regex.
C2_FixedProvenance ==
  IsSelectorCall /\ ret.k = "field" =>
    /\ ret.source \in Sources
    /\ call.selector[ret.source].t = "str"
    /\ ret.path = call.selector[ret.source].s
    /\ ret.confidence = ConfidenceOf(ret.source)

\* a result from dataLayers whose value went through transformations and a
\* regex
C2_Witness ==
  /\ IsSelectorCall
  /\ ret.k = "field"
  /\ ret.source = "dataLayers"
  /\ Len(call.selector.transformations) > 0
  /\ Truthy(call.selector.regex)
  /\ ret.value # Evaluated(data, call.selector, "dataLayers")
  /\ ret.confidence = 7

\* C3: a source without a path in the selector, absent from the payload, or
\* whose path evaluates to null or to "Not found" is passed over for the
\* next source in priority order; when every source misses, a selector
\* without any path included, processSelector returns null and does not
\* raise.
C3_MissFallsThrough ==
  IsSelectorCall =>
    /\ (\A s \in Sources : SourceMisses(data, call.selector, s)) => ret = NullResult
    /\ \A i \in 1..Len(SourceOrder) :
         /\ \A j \in 1..(i - 1) : SourceMisses(data, call.selector, SourceOrder[j])
         /\ SourceHits(data, call.selector, SourceOrder[i])
         => /\ ret.k # "null"
            /\ ret.k = "field" => ret.source = SourceOrder[i]

\* jsonLd answers "Not found" and the result comes from metaTags
C3_Witness ==
  /\ IsSelectorCall
  /\ Evaluated(data, call.selector, "jsonLd") = NotFound
  /\ ret.k = "field"
  /\ ret.source = "metaTags"

\* a selector without any path resolves to null
C3_WitnessNoPaths ==
  /\ IsSelectorCall
  /\ \A s \in Sources : call.selector[s] = Undef
  /\ data = FullPayload
  /\ ret = NullResult

\* the value after the first n transformations of ts, each one consuming
\* the output of the one before
RECURSIVE TransformedUpTo(_, _, _)
TransformedUpTo(v, ts, n) ==
  IF n = 0 THEN v ELSE ApplyTransformation(TransformedUpTo(v, ts, n - 1), ts[n])

\* the value the winning source gave, and the output of the whole list
RawValue == Evaluated(data, call.selector, ret.source)

ListOutput ==
  TransformedUpTo(RawValue, call.selector.transformations,
                  Len(call.selector.transformations))

\* ts from its last element to its first
Reversed(ts) == [i \in 1..Len(ts) |-> ts[Len(ts) + 1 - i]]

\* C4: on a hit the value of the result is the standalone regex step applied
\* to the output of the last transformation, where each transformation in
\* list order consumed the output of the one before it and the first one the
\* value the source gave.
C4_TransformationsThenRegex ==
  IsSelectorCall /\ ret.k = "field" =>
    ret.value = ApplySelectorRegex(ListOutput, call.selector.regex)

\* two transformations whose order matters, followed by a regex that
\* changes the output of the list
C4_Witness ==
  /\ IsSelectorCall
  /\ ret.k = "field"
  /\ Len(call.selector.transformations) = 2
  /\ Truthy(call.selector.regex)
  /\ ListOutput # RawValue
  /\ ListOutput # TransformedUpTo(RawValue, Reversed(call.selector.transformations), 2)
  /\ ret.value # ListOutput

\* the first match of the selector's regex in the output of the list
RegexMatch == Exec(RegExp(call.selector.regex.s, <<>>), ListOutput.s, 0)

\* C5: when selector.regex is set and the value after the transformations
\* is a string, on a match the value becomes capture group 1 if the pattern
\* has a group 1 that took part in the match, the empty string included,
\* and the full match otherwise; without a match, or when the value is not
\* a string, the value is left as it is.
C5_Original ==
  IsSelectorCall /\ ret.k = "field" =>
    IF Truthy(call.selector.regex) /\ TypeOf(ListOutput) = "string"
    THEN IF RegexMatch.found
         THEN IF Len(RegexMatch.caps) >= 1 /\ RegexMatch.caps[1] # Undef
              THEN ret.value = RegexMatch.caps[1]
              ELSE ret.value = Str(SubSeq(ListOutput.s, RegexMatch.index + 1, RegexMatch.end))
         ELSE ret.value = ListOutput
    ELSE ret.value = ListOutput

\* C6: when processRecipe returns, its mapping holds exactly the field names
\* whose selector alone resolves to a non-null result, each with that
\* result; a field that resolves to null is not a key, and the fields after
\* it are resolved all the same.
C6_RecipeKeys ==
  IsRecipeCall /\ ret.k = "product" =>
    LET selectors == call.selectors
        alone(i) == processSelector(data, selectors[i].selector)
        kept == {i \in 1..Len(selectors) : alone(i).k = "field"}
    IN  /\ Len(ret.fields) = Cardinality(kept)
        /\ \A i \in kept :
             \E j \in 1..Len(ret.fields) :
               ret.fields[j] = [name |-> selectors[i].name, field |-> alone(i)]
        /\ \A j \in 1..Len(ret.fields) :
             /\ ret.fields[j].field.k = "field"
             /\ \E i \in kept : ret.fields[j].name = selectors[i].name
        /\ \A i \in 1..Len(selectors) :
             i \notin kept => \A j \in 1..Len(ret.fields) : ret.fields[j].name # selectors[i].name

\* the first field of a recipe resolves to null and the second one is the
\* only key of the result
C6_Witness ==
  /\ IsRecipeCall
  /\ ret.k = "product"
  /\ Len(call.selectors) = 2
  /\ processSelector(data, call.selectors[1].selector).k = "null"
  /\ Len(ret.fields) = 1
  /\ ret.fields[1].name = call.selectors[2].name

\* the pattern compiles, or there is none
PatternCompiles(pattern, flags) ==
  pattern.t = "str" => RegExp(pattern.s, FlagsOf(flags)).ok

\* every pattern the selector carries compiles: the faults left are those
\* of the data
SelectorCompiles(selector) ==
  /\ PatternCompiles(selector.regex, Undef)
  /\ \A n \in 1..Len(selector.transformations) :
       PatternCompiles(selector.transformations[n].pattern, selector.transformations[n].flags)

\* C20: malformed input data never aborts a batch: for any payload, however
\* its five sources are shaped (scalars where sequences or mappings are
\* expected, nulls inside nested data, absent sources, placeholder blocks),
\* processRecipe with selectors whose patterns compile returns without
\* raising, and every field that some source resolves is a key of what it
\* returns, taken from a source that resolves it.
C20_MalformedDataNeverAborts ==
  IsRecipeCall /\ (\A i \in 1..Len(call.selectors) : SelectorCompiles(call.selectors[i].selector)) =>
    /\ ret.k = "product"
    /\ \A i \in 1..Len(call.selectors) :
         (\E source \in Sources : SourceHits(data, call.selectors[i].selector, source)) =>
           \E j \in 1..Len(ret.fields) :
             /\ ret.fields[j].name = call.selectors[i].name
             /\ ret.fields[j].field.k = "field"
             /\ SourceHits(data, call.selectors[i].selector, ret.fields[j].field.source)

\* a scalar in the place of jsonLd: the first field finds nothing, the
\* second one is resolved from a well-formed source
C20_Witness ==
  /\ IsRecipeCall
  /\ data \in MalformedPayloads
  /\ data.jsonLd.t \notin {"arr", "undef"}
  /\ Len(call.selectors) = 2
  /\ ret.k = "product"
  /\ Len(ret.fields) = 1
  /\ ret.fields[1].name = call.selectors[2].name
  /\ ret.fields[1].field.source # "jsonLd"

\* a leaf without a string form, inside a block of jsonLd, is skipped
C20_WitnessNoStringForm ==
  /\ IsRecipeCall
  /\ data \in MalformedPayloads
  /\ Len(call.selectors) = 1
  /\ call.selectors[1].selector.jsonLd = Str(<<"0", ".", "p", "r", "i", "c", "e">>)
  /\ GetProp(GetIndex(data.jsonLd, 0), <<"p", "r", "i", "c", "e">>).t = "obj"
  /\ ret = Product(<<>>)

\* the selector's list holds a transformation of this type
HasTransformation(selector, type) ==
  \E n \in 1..Len(selector.transformations) : selector.transformations[n].type = type

\* C26: the value of every non-null result of processSelector is a string,
\* a number or a boolean, never null or undefined; it is a number only when
\* the selector's transformations contain parseNumber and a boolean only
\* when they contain parseBoolean.
C26_ValueTypes ==
  IsSelectorCall /\ ret.k = "field" =>
    /\ ret.value.t \in {"str", "num", "bool"}
    /\ ret.value.t = "num" => HasTransformation(call.selector, "parseNumber")
    /\ ret.value.t = "bool" => HasTransformation(call.selector, "parseBoolean")

\* a number leaf of the data layer comes back as a string, the selector's
\* regex not matching it
C26_Witness ==
  /\ IsSelectorCall
  /\ ret.k = "field"
  /\ ret.source = "dataLayers"
  /\ GetProp(GetIndex(GetProp(data.dataLayers, <<"d", "a", "t", "a", "L", "a", "y", "e", "r">>), 0), <<"p", "r", "i", "c", "e">>) = Num(1399)
  /\ call.selector.transformations = <<>>
  /\ call.selector.regex = Str(<<"[", "a", "-", "z", "]", "+">>)
  /\ ret.value = Str(<<"1", "3", "9", "9">>)

\* a price parsed to a number
C26_WitnessNumber ==
  /\ IsSelectorCall
  /\ ret.k = "field"
  /\ HasTransformation(call.selector, "parseNumber")
  /\ ret.value = Num(1399)

\* the source is the first one that hits, and what it gives is the empty
\* string
EmptyHit(d, selector, source) ==
  /\ SourceHits(d, selector, source)
  /\ Evaluated(d, selector, source) = Str(<<>>)
  /\ \A j \in 1..(PositionOf(source) - 1) : SourceMisses(d, selector, SourceOrder[j])

\* C27: a path that evaluates to the empty string is a hit: processSelector
\* returns a result from that source, with value "" when the selector has
\* no transformation and no regex, without falling back to a source of
\* lower priority, and processRecipe has the key of that field in its
\* result.
C27_EmptyStringIsHit ==
  /\ IsSelectorCall =>
       \A source \in Sources :
         EmptyHit(data, call.selector, source) =>
           /\ ret.k = "field"
           /\ ret.source = source
           /\ call.selector.transformations = <<>> /\ call.selector.regex = Undef
                => ret.value = Str(<<>>)
  /\ IsRecipeCall /\ ret.k = "product" =>
       \A i \in 1..Len(call.selectors) :
         \A source \in Sources :
           EmptyHit(data, call.selectors[i].selector, source) =>
             \E j \in 1..Len(ret.fields) :
               /\ ret.fields[j].name = call.selectors[i].name
               /\ ret.fields[j].field.source = source
               /\ ret.fields[j].field.value = Str(<<>>)

\* the empty og:title wins over the data layer, the microdata and the
\* custom data layers, which all resolve
C27_Witness ==
  /\ IsSelectorCall
  /\ EmptyHit(data, call.selector, "metaTags")
  /\ \A source \in {"dataLayers", "microdata", "customDataLayers"} :
       SourceHits(data, call.selector, source)
  /\ ret.k = "field"
  /\ ret.source = "metaTags"
  /\ ret.value = Str(<<>>)

\* a recipe keeps the field whose value is the empty string
C27_WitnessRecipe ==
  /\ IsRecipeCall
  /\ Len(call.selectors) = 1
  /\ EmptyHit(data, call.selectors[1].selector, "metaTags")
  /\ ret.k = "product"
  /\ Len(ret.fields) = 1
  /\ ret.fields[1].field.value = Str(<<>>)

\* some source hits, and the first one that does
SomeHit(d, selector) == \E source \in Sources : SourceHits(d, selector, source)

WinningSource(d, selector) ==
  SourceOrder[CHOOSE i \in 1..Len(SourceOrder) :
                /\ SourceHits(d, selector, SourceOrder[i])
                /\ \A j \in 1..(i - 1) : SourceMisses(d, selector, SourceOrder[j])]

\* some pattern of the selector does not compile
HasInvalidPattern(selector) == ~SelectorCompiles(selector)

\* transformation n of ts carries a pattern that does not compile and is
\* applied to the value v of the hit: it is a regex or a replace with a
\* non-empty replacement, and what the transformations before it left is
\* still a string
AppliedInvalid(v, ts, n) ==
  /\ ts[n].type \in {"regex", "replace"}
  /\ ~PatternCompiles(ts[n].pattern, ts[n].flags)
  /\ ts[n].type = "replace" => ts[n].replacement.t = "str" /\ ts[n].replacement.s # <<>>
  /\ TransformedUpTo(v, ts, n - 1).t = "str"

\* a pattern that does not compile is applied to the value v of the hit:
\* one of the transformations, or the selector's regex on a string the
\* transformations left
RaisesOn(v, selector) ==
  \/ \E n \in 1..Len(selector.transformations) : AppliedInvalid(v, selector.transformations, n)
  \/ /\ ~PatternCompiles(selector.regex, Undef)
     /\ TransformedUpTo(v, selector.transformations, Len(selector.transformations)).t = "str"

SelectorRaises(d, selector) ==
  /\ SomeHit(d, selector)
  /\ RaisesOn(Evaluated(d, selector, WinningSource(d, selector)), selector)

\* C28 as stated: with a syntactically invalid selector.regex or
\* transformation pattern, processSelector returns null without raising
\* when every source misses and raises when some source hits; then
\* processRecipe raises as well and returns no field at all.
C28_Original ==
  /\ IsSelectorCall /\ HasInvalidPattern(call.selector) =>
       IF SomeHit(data, call.selector) THEN ret.k = "throw" ELSE ret = NullResult
  /\ IsRecipeCall =>
       ((\E i \in 1..Len(call.selectors) :
           /\ HasInvalidPattern(call.selectors[i].selector)
           /\ SomeHit(data, call.selectors[i].selector))
        => ret = RaisedProduct)

\* C28, amended: a pattern is compiled only when it is applied.  With a
\* pattern that does not compile, processSelector returns null without
\* raising when every source misses; when some source hits it raises
\* exactly when the pattern is applied to a value that is still a string (no
\* parseNumber or parseBoolean before it turned the value into a number or
\* a boolean, and a replace has a non-empty replacement), and returns a
\* field otherwise.  processRecipe raises exactly when processSelector
\* raises for one of its selectors, and then returns no field at all,
\* fields already resolved included.
C28_CompiledWhenApplied ==
  /\ IsSelectorCall =>
       IF ~SomeHit(data, call.selector) THEN ret = NullResult
       ELSE IF RaisesOn(Evaluated(data, call.selector, WinningSource(data, call.selector)),
                        call.selector)
            THEN ret = Raised
            ELSE ret.k = "field"
  /\ IsRecipeCall =>
       IF \E i \in 1..Len(call.selectors) : SelectorRaises(data, call.selectors[i].selector)
       THEN ret = RaisedProduct
       ELSE ret.k = "product"

\* every source misses: the selector's regex is never compiled
C28_WitnessMiss ==
  /\ IsSelectorCall
  /\ ~PatternCompiles(call.selector.regex, Undef)
  /\ ~SomeHit(data, call.selector)
  /\ ret = NullResult

\* a source hits and the pattern is applied: the call raises
C28_Witness ==
  /\ IsSelectorCall
  /\ HasInvalidPattern(call.selector)
  /\ SelectorRaises(data, call.selector)
  /\ ret = Raised

\* a source hits, and parseNumber has made a number of "$1,399.00" before
\* the regex that does not compile: the call returns the number
C28_WitnessNotApplied ==
  /\ IsSelectorCall
  /\ ~PatternCompiles(call.selector.regex, Undef)
  /\ SomeHit(data, call.selector)
  /\ HasTransformation(call.selector, "parseNumber")
  /\ ret.k = "field"
  /\ ret.value = Num(1399)

\* the first field of the recipe resolves, the second one raises: nothing
\* is returned
C28_WitnessRecipe ==
  /\ IsRecipeCall
  /\ Len(call.selectors) = 2
  /\ processSelector(data, call.selectors[1].selector).k = "field"
  /\ SelectorRaises(data, call.selectors[2].selector)
  /\ ret = RaisedProduct

-----------------------------------------------------------------------------
(* Claims about validateStructuredData and getVersion, checked under Spec *)

IsValidateCall == call.op = "validateStructuredData"

IsGetVersionCall == call.op = "getVersion"

\* what a candidate carries as jsonLd; nothing when it has no properties
JsonLdOf(d) == IF IsNullish(d) THEN Undef ELSE GetProp(d, <<"j", "s", "o", "n", "L", "d">>)

\* the candidate is an object whose fields other than jsonLd have the types
\* of a payload
OthersWellTyped(d) ==
  /\ d.t = "obj"
  /\ GetProp(d, <<"m", "e", "t", "a", "T", "a", "g", "s">>).t = "obj"
  /\ GetProp(d, <<"d", "a", "t", "a", "L", "a", "y", "e", "r", "s">>).t = "obj"
  /\ \A key \in {<<"u", "r", "l">>, <<"p", "a", "g", "e", "T", "i", "t", "l", "e">>, <<"t", "i", "m", "e", "s", "t", "a", "m", "p">>, <<"e", "x", "t", "r", "a", "c", "t", "o", "r", "V", "e", "r", "s", "i", "o", "n">>} :
       GetProp(d, key).t = "str"

\* C11: validateStructuredData raises for no candidate, whether null,
\* undefined, a primitive or an object: it returns a boolean, and the boolean
\* is false for every candidate whose jsonLd is not a sequence, also when all
\* its other fields are well-typed.
C11_ValidateNeverRaises ==
  IsValidateCall =>
    /\ ret \in {Bool(TRUE), Bool(FALSE)}
    /\ ~IsArray(JsonLdOf(call.data)) => ret = Bool(FALSE)

\* a candidate refused only for its jsonLd, which is a string
C11_Witness ==
  /\ IsValidateCall
  /\ OthersWellTyped(call.data)
  /\ JsonLdOf(call.data).t = "str"
  /\ ret = Bool(FALSE)

\* null, undefined and a number are refused without a raise
C11_WitnessNull == IsValidateCall /\ call.data = Null /\ ret = Bool(FALSE)

\* a candidate that is accepted
C11_WitnessValid ==
  IsValidateCall /\ OthersWellTyped(call.data) /\ ret = Bool(TRUE)

\* the version string the processor was constructed with
GivenVersion == IF given = Undef THEN STRUCTURED_DATA_VERSION ELSE given.s

\* C14: the processor's version is, in every state any sequence of
\* processSelector, processRecipe, validateStructuredData and getVersion
\* calls leads to, the string given at construction, STRUCTURED_DATA_VERSION
\* when none was given, whatever extractorVersion the payloads carry, and
\* getVersion returns that string verbatim.
C14_GetVersionVerbatim ==
  /\ version = GivenVersion
  /\ IsGetVersionCall => ret = GivenVersion

\* getVersion on a processor constructed with a version of its own
C14_Witness ==
  /\ IsGetVersionCall
  /\ given # Undef
  /\ given.s # STRUCTURED_DATA_VERSION
  /\ ret = given.s

\* getVersion on a processor constructed without a version
C14_WitnessDefault ==
  IsGetVersionCall /\ given = Undef /\ ret = STRUCTURED_DATA_VERSION

\* a payload of another extractorVersion is being processed
C14_WitnessOtherExtractor ==
  /\ IsSelectorCall
  /\ data.extractorVersion # Str(version)
  /\ ret.k = "field"

\* the candidate's property of this name; nothing when it has no properties
FieldOf(d, key) == IF IsNullish(d) THEN Undef ELSE GetProp(d, key)

\* C24: validateStructuredData returns true only when jsonLd is a sequence,
\* url, pageTitle, timestamp and extractorVersion are strings, and metaTags
\* and dataLayers are each an object: a candidate whose metaTags or
\* dataLayers is null, missing or a primitive is rejected.
C24_Original ==
  IsValidateCall /\ ret = Bool(TRUE) =>
    /\ IsArray(FieldOf(call.data, <<"j", "s", "o", "n", "L", "d">>))
    /\ \A key \in {<<"u", "r", "l">>, <<"p", "a", "g", "e", "T", "i", "t", "l", "e">>, <<"t", "i", "m", "e", "s", "t", "a", "m", "p">>, <<"e", "x", "t", "r", "a", "c", "t", "o", "r", "V", "e", "r", "s", "i", "o", "n">>} :
         FieldOf(call.data, key).t = "str"
    /\ \A key \in {<<"m", "e", "t", "a", "T", "a", "g", "s">>, <<"d", "a", "t", "a", "L", "a", "y", "e", "r", "s">>} :
         FieldOf(call.data, key).t \in {"obj", "arr"}

\* the part of C24 the code keeps: a missing or primitive metaTags or
\* dataLayers is rejected, and so is all that is wrong in the other fields
C24_AllButNull ==
  IsValidateCall /\ ret = Bool(TRUE) =>
    /\ IsArray(FieldOf(call.data, <<"j", "s", "o", "n", "L", "d">>))
    /\ \A key \in {<<"u", "r", "l">>, <<"p", "a", "g", "e", "T", "i", "t", "l", "e">>, <<"t", "i", "m", "e", "s", "t", "a", "m", "p">>, <<"e", "x", "t", "r", "a", "c", "t", "o", "r", "V", "e", "r", "s", "i", "o", "n">>} :
         FieldOf(call.data, key).t = "str"
    /\ \A key \in {<<"m", "e", "t", "a", "T", "a", "g", "s">>, <<"d", "a", "t", "a", "L", "a", "y", "e", "r", "s">>} :
         FieldOf(call.data, key).t \in {"obj", "arr", "null"}

\* a candidate whose dataLayers is a number is rejected
C24_WitnessPrimitive ==
  /\ IsValidateCall
  /\ FieldOf(call.data, <<"d", "a", "t", "a", "L", "a", "y", "e", "r", "s">>).t = "num"
  /\ FieldOf(call.data, <<"m", "e", "t", "a", "T", "a", "g", "s">>).t = "obj"
  /\ IsArray(FieldOf(call.data, <<"j", "s", "o", "n", "L", "d">>))
  /\ ret = Bool(FALSE)

-----------------------------------------------------------------------------
(* Claims about the transformations, checked under SpecTransform *)

IsTransformCall == call.op = "applyTransformations" /\ Len(call.transformations) > 0

\* the last transformation of the list and the value it is applied to
LastTransform == call.transformations[Len(call.transformations)]

BeforeLast == TransformedUpTo(data, call.transformations, Len(call.transformations) - 1)

\* the last transformation of the list is of this type and is applied to a
\* string
LastOnString(type) ==
  /\ IsTransformCall
  /\ LastTransform.type = type
  /\ BeforeLast.t = "str"

\* the characters parseNumber keeps
IsNumeric(ch) == IsDigit(ch) \/ ch = "." \/ ch = "-"

Numeric(str) == SelectSeq(str, IsNumeric)

\* C15: parseNumber applied to a string removes every character that is not
\* a digit, a dot or a minus sign and reads the rest as parseFloat does; when
\* that gives a number the value becomes that number ("1399.00" gives 1399),
\* and when it gives none the value stays the original string.
C15_ParseNumber ==
  /\ LastOnString("parseNumber") =>
       IF ParseFloat(Numeric(BeforeLast.s)).nan THEN ret = BeforeLast
       ELSE ret = ParseFloat(Numeric(BeforeLast.s)).v
  /\ LastOnString("parseNumber") /\ BeforeLast.s = <<"1", "3", "9", "9", ".", "0", "0">> => ret = Num(1399)
  /\ LastOnString("parseNumber") /\ BeforeLast.s = <<"$", "1", ",", "3", "9", "9", ".", "0", "0">> => ret = Num(1399)
  /\ LastOnString("parseNumber") /\ BeforeLast.s = <<"-", "5", ".", "5", "0">> => ret = Dec(0 - 55, 1)
  /\ LastOnString("parseNumber") /\ BeforeLast.s \in {<<"a", "b", "c">>, <<"-">>, <<>>} => ret = BeforeLast

\* a price with a currency sign and a thousands separator becomes a number
C15_Witness ==
  /\ LastOnString("parseNumber")
  /\ BeforeLast.s = <<"$", "1", ",", "3", "9", "9", ".", "0", "0">>
  /\ ret = Num(1399)

\* no digit is left: the string stays
C15_WitnessNoDigit ==
  /\ LastOnString("parseNumber")
  /\ BeforeLast.s = <<"a", "b", "c">>
  /\ ret = Str(<<"a", "b", "c">>)

\* the two strings differ at most in the case of their letters
SameIgnoringCase(a, b) ==
  /\ Len(a) = Len(b)
  /\ \A i \in 1..Len(a) : ToLowerChar(a[i]) = ToLowerChar(b[i])

\* the words parseBoolean reads as true
TrueWords == {<<"t", "r", "u", "e">>, <<"y", "e", "s">>, <<"1">>, <<"o", "n">>, <<"e", "n", "a", "b", "l", "e", "d">>}

\* C16: parseBoolean applied to any string yields a boolean: true exactly
\* when the string, compared without regard to case and without trimming,
\* is one of "true", "yes", "1", "on", "enabled", false for every other
\* string.
C16_ParseBoolean ==
  LastOnString("parseBoolean") =>
    ret = Bool(\E word \in TrueWords : SameIgnoringCase(BeforeLast.s, word))

\* a word in another case is true
C16_Witness ==
  /\ LastOnString("parseBoolean")
  /\ BeforeLast.s = <<"E", "n", "a", "b", "l", "e", "d">>
  /\ ret = Bool(TRUE)

\* a word between blanks is false
C16_WitnessUntrimmed ==
  /\ LastOnString("parseBoolean")
  /\ BeforeLast.s = <<" ", "Y", "e", "s", " ">>
  /\ ret = Bool(FALSE)

\* the pattern of the last transformation, compiled with its flags
LastRegExp == RegExp(LastTransform.pattern.s, FlagsOf(LastTransform.flags))

\* the last transformation is of this type, carries a pattern that
\* compiles, and is applied to a string
LastWithPattern(type) ==
  /\ LastOnString(type)
  /\ LastTransform.pattern.t = "str"
  /\ Len(LastTransform.pattern.s) > 0
  /\ LastRegExp.ok

\* the string after the replacement has been substituted for the matches of
\* the pattern: all of them with g, the first one without
Substituted ==
  Str(StringReplace(BeforeLast.s, LastRegExp, LastTransform.replacement.s))

\* C17: a replace transformation with a pattern and a replacement string,
\* applied to a string, substitutes the replacement for the text the
\* pattern matches, every match with the g flag and the first one without,
\* for every replacement string, the empty one included.
C17_Original ==
  LastWithPattern("replace") /\ LastTransform.replacement.t = "str" =>
    ret = Substituted

\* the part of C17 the code keeps: the replacements that are not empty
C17_NonEmptyReplacement ==
  LastWithPattern("replace") /\ LastTransform.replacement.t = "str"
    /\ Len(LastTransform.replacement.s) > 0 =>
      ret = Substituted

\* a replacement that changes the string: every match with g
C17_WitnessNonEmpty ==
  /\ LastWithPattern("replace")
  /\ LastRegExp.global
  /\ BeforeLast.s = <<"$", "1", ",", "3", "9", "9", ".", "0", "0">>
  /\ ret = Str(<<"_", "1", "_", "3", "9", "9", ".", "0", "0">>)

\* the first match of the pattern of the last transformation
FirstMatch == Exec(LastRegExp, BeforeLast.s, 0)

\* capture group 1 of the first match where the pattern has a group 1 that
\* took part in it, the full text of the first match otherwise
GroupOrMatch ==
  IF Len(FirstMatch.caps) >= 1 /\ FirstMatch.caps[1] # Undef
  THEN FirstMatch.caps[1]
  ELSE Str(SubSeq(BeforeLast.s, FirstMatch.index + 1, FirstMatch.end))

\* C18: a regex transformation with a pattern and any flags, applied to a
\* string the pattern matches, yields capture group 1 of the first match
\* when the pattern defines one and the full text of the first match
\* otherwise, also when the flags contain g; when the pattern does not
\* match, the value is left as it is.
C18_Original ==
  LastWithPattern("regex") =>
    IF FirstMatch.found THEN ret = GroupOrMatch ELSE ret = BeforeLast

\* the part of C18 the code keeps: no g flag, and a group 1 that did not
\* capture the empty string
C18_WithoutGlobal ==
  LastWithPattern("regex") /\ ~LastRegExp.global =>
    IF FirstMatch.found
    THEN GroupOrMatch # Str(<<>>) => ret = GroupOrMatch
    ELSE ret = BeforeLast

\* group 1 of the first match, without g
C18_WitnessGroup ==
  /\ LastWithPattern("regex")
  /\ ~LastRegExp.global
  /\ BeforeLast.s = <<"$", "1", ",", "3", "9", "9", ".", "0", "0">>
  /\ ret = Str(<<"1">>)

-----------------------------------------------------------------------------
(* Claims about calls that share a processor and a payload, checked under   *)
(* SpecShared                                                               *)

\* site s is back from a call of this operation
IsBackFrom(s, op) == sites[s].pc = "returned" /\ sites[s].op = op

\* the selector site s called processSelector with
SelectorOf(s) == sites[s].selectors[1].selector

C13_ReadOnly ==
  [][/\ data' = data
     /\ version' = version
     /\ \A s \in Sites :
          sites[s].pc # "idle" /\ sites'[s].pc # "idle" =>
            sites'[s].selectors = sites[s].selectors]_vars

\* a recipe whose first selector carries a transformation has been
\* resolved, and the selector still carries it
C13_Witness ==
  \E s \in Sites :
    /\ IsBackFrom(s, "processRecipe")
    /\ Len(sites[s].selectors) = 2
    /\ Len(sites[s].selectors[1].selector.transformations) = 1
    /\ Len(sites[s].ret.fields) = 2
    /\ sites[s].ret.fields[1].field.value = Num(1399)
    /\ data = FullPayload

\* the same call run alone
Alone(s) ==
  IF sites[s].op = "processSelector" THEN processSelector(data, SelectorOf(s))
  ELSE processRecipe(data, sites[s].selectors)

\* C19: calls of processSelector and processRecipe made from several sites
\* on one processor and one payload, their steps interleaved in any order,
\* each return what the same call returns when it runs alone, and a site in
\* the loop of processRecipe has built what the loop alone builds from the
\* entries it has passed.
C19_InterleavedAsAlone ==
  \A s \in Sites :
    /\ sites[s].pc = "returned" => sites[s].ret = Alone(s)
    /\ sites[s].pc = "loop" =>
         Product(sites[s].result) =
           processRecipe(data, SubSeq(sites[s].selectors, 1, sites[s].i - 1))

\* both sites are in the loop of a recipe, past their first entry, and the
\* first site has kept a field the second one has not
C19_WitnessInterleaved ==
  /\ \A s \in Sites : sites[s].pc = "loop" /\ sites[s].i = 2 /\ Len(sites[s].selectors) = 2
  /\ Len(sites[1].result) = 1
  /\ Len(sites[2].result) = 0

\* both sites are back from different recipes, each with its own fields
C19_Witness ==
  /\ \A s \in Sites : IsBackFrom(s, "processRecipe") /\ sites[s].ret = Alone(s)
  /\ Len(sites[1].ret.fields) = 2
  /\ Len(sites[2].ret.fields) = 1
  /\ sites[1].selectors # sites[2].selectors

(* Claims about evaluateStructuredDataPath, checked under SpecEval *)

IsEvalCall == call.op = "evaluateStructuredDataPath"

\* the roots that are null, undefined or otherwise empty
EmptyRoots == {Null, Undef, Bool(FALSE), Num(0), Str(<<>>)}

\* the string form of a value, or Null when it has none
StringForm(v) == IF ToStr(v).ok THEN Str(ToStr(v).s) ELSE Null

\* a dotted path: property names only, no bracket group
IsDotted(ts) == Len(ts) > 0 /\ \A i \in 1..Len(ts) : ts[i].name

\* the value reached from v by reading the property names ts[i..] one after
\* the other; Undef as soon as a name is read from null or undefined
RECURSIVE Leaf(_, _, _)
Leaf(v, ts, i) ==
  IF i > Len(ts) THEN v
  ELSE IF IsNullish(v) THEN Undef
  ELSE Leaf(GetProp(v, ts[i].s), ts, i + 1)

\* k names a property the value v has itself: a key of an object, an index
\* or the length of a sequence or a string
Exists(v, k) ==
  CASE v.t = "obj" -> HasOwn(v, k)
    [] v.t = "arr" -> k = K_length \/ (IsIndexKey(k) /\ ParseDigits(k) < Len(v.e))
    [] v.t = "str" -> k = K_length \/ (IsIndexKey(k) /\ ParseDigits(k) < Len(v.s))
    [] OTHER -> FALSE

\* every name of ts[i..] exists where it is read (its value may be null)
RECURSIVE AllExist(_, _, _)
AllExist(v, ts, i) ==
  IF i > Len(ts) THEN TRUE
  ELSE /\ Exists(v, ts[i].s)
       /\ AllExist(GetProp(v, ts[i].s), ts, i + 1)

\* every name of ts[i..] exists where it is read, with a value other than null
RECURSIVE AllPresent(_, _, _)
AllPresent(v, ts, i) ==
  IF i > Len(ts) THEN TRUE
  ELSE /\ ~IsNullish(v)
       /\ ~IsNullish(GetProp(v, ts[i].s))
       /\ AllPresent(GetProp(v, ts[i].s), ts, i + 1)

\* C7: evaluateStructuredDataPath never raises to its caller, for any root and
\* any path: it returns a string or null; and it returns null when the root is
\* null, undefined or otherwise empty, and when the path is the empty string.
C7_NeverRaises ==
  IsEvalCall =>
    /\ ret.t \in {"str", "null"}
    /\ (call.obj \in EmptyRoots \/ call.path = <<>>) => ret = Null

\* a call whose evaluation raised inside (String() of an object whose own
\* toString is not callable) and that returned null
C7_Witness ==
  /\ IsEvalCall
  /\ IsThrow(EvalTry(call.obj, call.path))
  /\ ret = Null

\* a call with an empty, non-null root and a non-empty path
C7_WitnessEmptyRoot ==
  /\ IsEvalCall
  /\ call.obj = Num(0)
  /\ call.path = K_toString
  /\ ret = Null

\* the names of ts that are inherited, not data
NoInherited(ts) == \A i \in 1..Len(ts) : ts[i].s # K_toString

\* C8 as stated: for every non-null root and every dotted path made only of
\* property names that exist along the way, the result is the string form of
\* the leaf value; for every path that touches a missing segment it is null.
\* (Read in the claim's favour: empty roots, paths through inherited members
\* and leaves that have no string form are left out.)
C8_Original ==
  (IsEvalCall /\ Truthy(call.obj) /\ IsDotted(call.tokens) /\ NoInherited(call.tokens)) =>
    IF AllExist(call.obj, call.tokens, 1)
    THEN ToStr(Leaf(call.obj, call.tokens, 1)).ok =>
           ret = Str(ToStr(Leaf(call.obj, call.tokens, 1)).s)
    ELSE ret = Null

\* C8 amended: for every non-empty root and every dotted path made only of
\* property names that exist along the way with a value other than null, the
\* result is the string form of the leaf value (numbers and booleans
\* stringified, 0 and false included), or null when the leaf has no string
\* form; for every path that touches a missing or null-valued segment, at any
\* depth, and for every empty root, it is null.
C8_StringOfLeaf ==
  (IsEvalCall /\ IsDotted(call.tokens)) =>
    IF Truthy(call.obj) /\ AllPresent(call.obj, call.tokens, 1)
    THEN ret = StringForm(Leaf(call.obj, call.tokens, 1))
    ELSE ret = Null

\* the leaf 0 at depth two comes back as the string "0"
C8_Witness ==
  /\ IsEvalCall
  /\ call.obj = TestData
  /\ call.path = <<"a", ".", "z">>
  /\ ret = Str(<<"0">>)

\* a path that touches a missing segment below an existing one
C8_WitnessMissing ==
  /\ IsEvalCall
  /\ call.obj = TestData
  /\ call.path = <<"a", ".", "m", ".", "a">>
  /\ ret = Null

\* the bracket groups of ts are all of the form [digits]
NumericGroups(ts) == \A i \in 1..Len(ts) : ts[i].name \/ ts[i].idx >= 0

HasGroup(ts) == \E i \in 1..Len(ts) : ~ts[i].name

\* the cursor after the tokens ts[i..], read as the segment rule says: a name
\* advances into that property (null at once when that is null or undefined),
\* an empty name in front of a bracket group leaves the cursor where it is,
\* a group [k] needs a sequence and takes its element k (null when the cursor
\* is no sequence, or k is out of range)
RECURSIVE SegmentWalk(_, _, _)
SegmentWalk(cur, ts, i) ==
  IF i > Len(ts) THEN cur
  ELSE IF ts[i].name
       THEN IF ts[i].s = <<>> /\ i < Len(ts) /\ ~ts[i + 1].name
            THEN SegmentWalk(cur, ts, i + 1)
            ELSE IF IsNullish(GetProp(cur, ts[i].s)) THEN Null
                 ELSE SegmentWalk(GetProp(cur, ts[i].s), ts, i + 1)
       ELSE IF cur.t = "arr" /\ ts[i].idx < Len(cur.e) /\ ~IsNullish(cur.e[ts[i].idx + 1])
            THEN SegmentWalk(cur.e[ts[i].idx + 1], ts, i + 1)
            ELSE Null

\* C9: a segment name[i1][i2]... first advances the cursor into property name
\* (null at once if that is null or undefined), then applies every index left
\* to right, requiring a sequence at each step; an out-of-range index or a
\* non-sequence cursor yields null; a segment made of brackets only indexes
\* the current cursor directly.
C9_BracketSegments ==
  (IsEvalCall /\ Truthy(call.obj) /\ HasGroup(call.tokens) /\ NumericGroups(call.tokens)) =>
    ret = (IF IsNullish(SegmentWalk(call.obj, call.tokens, 1)) THEN Null
           ELSE StringForm(SegmentWalk(call.obj, call.tokens, 1)))

\* a brackets-only segment with two indices, then a property
C9_Witness ==
  /\ IsEvalCall
  /\ call.obj = DeepData
  /\ call.path = <<"[", "0", "]", "[", "0", "]", ".", "a">>
  /\ ret = Str(<<"d", "e", "e", "p">>)

\* name[i1][i2] where the second index meets a non-sequence cursor
C9_WitnessNonSequence ==
  /\ IsEvalCall
  /\ call.obj = TestData
  /\ call.path = <<"l", "[", "0", "]", "[", "0", "]">>
  /\ ret = Null

\* C10: the path is split only on '.': a path without '.' and without
\* brackets, colons included, is looked up as one flat property name of the
\* root, and a colon is never a nesting separator.
C10_ColonIsNoSeparator ==
  (IsEvalCall /\ Truthy(call.obj) /\ Len(call.path) > 0
     /\ ~Includes(call.path, ".") /\ ~Includes(call.path, "[") /\ ~Includes(call.path, "]")) =>
    ret = (IF IsNullish(GetProp(call.obj, call.path)) THEN Null
           ELSE StringForm(GetProp(call.obj, call.path)))

\* the key "a:n" gives its own value, not the value of n inside a
C10_Witness ==
  /\ IsEvalCall
  /\ call.obj = TestData
  /\ call.path = <<"a", ":", "n">>
  /\ ret = Str(<<"s", "p", "e", "c", "i", "a", "l">>)

\* tokens i and j of ts are written in the same segment of the path: no
\* property name after the first of them up to the second starts a new one
SameSegment(ts, i, j) ==
  \A k \in 1..Len(ts) :
    (k > i /\ k <= j) \/ (k > j /\ k <= i) => ~ts[k].name

\* some segment of the path has a bracket group and none with digits
HasGrouplessBrackets(ts) ==
  \E i \in 1..Len(ts) :
    /\ ~ts[i].name
    /\ \A j \in 1..Len(ts) :
         ~ts[j].name /\ SameSegment(ts, i, j) => ts[j].idx = -1

\* C30: a path segment that contains both '[' and ']' but no [digits]
\* group makes evaluateStructuredDataPath return null; such a segment is
\* never looked up as a plain property name, even when the cursor has a
\* property with exactly that name.
C30_GrouplessBrackets ==
  IsEvalCall /\ HasGrouplessBrackets(call.tokens) => ret = Null

\* the root has the property "l[x]", and the path l[x] gives null
C30_Witness ==
  /\ IsEvalCall
  /\ call.path = <<"l", "[", "x", "]">>
  /\ GetProp(call.obj, <<"l", "[", "x", "]">>) = Str(<<"l", "i", "t", "e", "r", "a", "l">>)
  /\ ret = Null

\* brackets without digits are no [digits] group: l[]
C30_WitnessEmpty ==
  /\ IsEvalCall
  /\ call.path = <<"l", "[", "]">>
  /\ call.obj = TestData
  /\ ret = Null

-----------------------------------------------------------------------------
(* Claims about the DOM extractors, checked under SpecExtract *)

IsJsonLdCall == call.op = "extractJsonLdData"

IsMicrodataCall == call.op = "extractMicrodata"

IsExtractAllCall == call.op = "extractAll"

IsHasCall == call.op = "hasStructuredData"

\* the k-th position of the set S of positions, in document order
KthOf(S, k) == CHOOSE i \in S : Cardinality({j \in S : j < i}) = k - 1

\* the positions of the JSON-LD script blocks of a document
Blocks(nodes) ==
  {i \in 1..Len(nodes) :
     /\ nodes[i].tag = "SCRIPT"
     /\ \E a \in 1..Len(nodes[i].attrs) :
          nodes[i].attrs[a] = Attr("type", <<"a", "p", "p", "l", "i", "c", "a", "t", "i", "o", "n", "/", "l", "d", "+", "j", "s", "o", "n">>)}

\* the text is valid JSON
IsJson(text) == ~IsThrow(JSONParse(text))

\* C21: extractJsonLdData returns exactly one entry per JSON-LD script
\* block, in document order; a block whose text is not valid JSON yields
\* the placeholder object { error: "Invalid JSON", content: <raw text> } in
\* its position and does not prevent the other blocks from being parsed or
\* the call from returning.
C21_OneEntryPerBlock ==
  IsJsonLdCall =>
    /\ ret.t = "arr"
    /\ Len(ret.e) = Cardinality(Blocks(call.nodes))
    /\ \A k \in 1..Len(ret.e) :
         IF IsJson(call.nodes[KthOf(Blocks(call.nodes), k)].text)
         THEN ret.e[k] = JSONParse(call.nodes[KthOf(Blocks(call.nodes), k)].text)
         ELSE ret.e[k] = Obj(<<P(<<"e", "r", "r", "o", "r">>, Str(<<"I", "n", "v", "a", "l", "i", "d", " ", "J", "S", "O", "N">>)),
                                P(<<"c", "o", "n", "t", "e", "n", "t">>, Str(call.nodes[KthOf(Blocks(call.nodes), k)].text))>>)

\* a block that stops short between two blocks that parse
C21_Witness ==
  /\ IsJsonLdCall
  /\ Len(call.nodes) = 3
  /\ call.nodes[1].text = <<"{", "\"", "n", "a", "m", "e", "\"", ":", "\"", "T", "v", "\"", ",", "\"", "p", "r", "i", "c", "e", "\"", ":", "2", "0", "}">>
  /\ call.nodes[2].text = <<"{", "\"", "n", "a", "m", "e", "\"", ":">>
  /\ call.nodes[3].text = <<"n", "u", "l", "l">>
  /\ ret = Arr(<<Obj(<<P(<<"n", "a", "m", "e">>, Str(<<"T", "v">>)), P(<<"p", "r", "i", "c", "e">>, Num(20))>>),
                 Obj(<<P(<<"e", "r", "r", "o", "r">>, Str(<<"I", "n", "v", "a", "l", "i", "d", " ", "J", "S", "O", "N">>)), P(<<"c", "o", "n", "t", "e", "n", "t">>, Str(<<"{", "\"", "n", "a", "m", "e", "\"", ":">>))>>),
                 Null>>)

\* a script of another type between the blocks and a block inside an
\* element: two entries, the value followed by something else being a
\* placeholder
C21_WitnessOtherScript ==
  /\ IsJsonLdCall
  /\ Len(call.nodes) = 3
  /\ call.nodes[1] = PlainDiv
  /\ call.nodes[2].depth = 1
  /\ call.nodes[2].text = <<"[", "1", "]", " ", "x">>
  /\ call.nodes[3].text = <<"[", "7", "]">>
  /\ ret = Arr(<<Obj(<<P(<<"e", "r", "r", "o", "r">>, Str(<<"I", "n", "v", "a", "l", "i", "d", " ", "J", "S", "O", "N">>)), P(<<"c", "o", "n", "t", "e", "n", "t">>, Str(<<"[", "1", "]", " ", "x">>))>>)>>)

\* a is an element around p
Around(nodes, a, p) ==
  a < p /\ \A k \in (a + 1)..p : nodes[k].depth > nodes[a].depth

\* the positions of the itemscope elements of a document
Scopes(nodes) ==
  {i \in 1..Len(nodes) : \E a \in 1..Len(nodes[i].attrs) : nodes[i].attrs[a].k = "itemscope"}

\* the scope the element p belongs to: the nearest itemscope element
\* around it, 0 when there is none
ScopeOf(nodes, p) ==
  IF \E e \in Scopes(nodes) : Around(nodes, e, p)
  THEN CHOOSE e \in Scopes(nodes) :
         /\ Around(nodes, e, p)
         /\ \A f \in Scopes(nodes) : Around(nodes, f, p) => f <= e
  ELSE 0

\* the itemprop elements of the scope e, with the name key
OwnProperties(nodes, e, key) ==
  {p \in 1..Len(nodes) :
     /\ ScopeOf(nodes, p) = e
     /\ \E a \in 1..Len(nodes[p].attrs) : nodes[p].attrs[a] = Attr("itemprop", key)}

Keys(item) == {item.f[i].k : i \in 1..Len(item.f)}

\* C25: extractMicrodata returns one item per itemscope element, nested
\* scopes included, in document order, and each item holds only the
\* itemprop properties that belong to its own scope: a property located
\* inside a nested itemscope appears in the nested scope's item (when it
\* has a value) and never in the item of an enclosing scope.
C25_OneItemPerScope ==
  IsMicrodataCall =>
    /\ ret.t = "arr"
    /\ Len(ret.e) = Cardinality(Scopes(call.nodes))
    /\ \A k \in 1..Len(ret.e) :
         /\ ret.e[k].t = "obj"
         /\ HasOwn(ret.e[k], <<"@", "t", "y", "p", "e">>) =>
              OwnGet(ret.e[k], <<"@", "t", "y", "p", "e">>) = getAttribute(call.nodes[KthOf(Scopes(call.nodes), k)], "itemtype")
         /\ \A key \in Keys(ret.e[k]) \ {<<"@", "t", "y", "p", "e">>} :
              \E p \in OwnProperties(call.nodes, KthOf(Scopes(call.nodes), k), key) :
                OwnGet(ret.e[k], key) = PropertyValue(call.nodes, p)
         /\ \A p \in 1..Len(call.nodes) :
              /\ ScopeOf(call.nodes, p) = KthOf(Scopes(call.nodes), k)
              /\ Truthy(getAttribute(call.nodes[p], "itemprop"))
              /\ Truthy(PropertyValue(call.nodes, p))
              => getAttribute(call.nodes[p], "itemprop").s \in Keys(ret.e[k])

\* a product whose offer is a nested scope: the price is in the offer's
\* item only, and the product's item has no price
C25_Witness ==
  /\ IsMicrodataCall
  /\ Len(call.nodes) = 3
  /\ call.nodes[2].depth = 1
  /\ call.nodes[3].depth = 2
  /\ ret = Arr(<<Obj(<<P(<<"@", "t", "y", "p", "e">>, Str(<<"P", "r", "o", "d", "u", "c", "t">>))>>),
                 Obj(<<P(<<"@", "t", "y", "p", "e">>, Str(<<"O", "f", "f", "e", "r">>)), P(<<"p", "r", "i", "c", "e">>, Str(<<"2", "0">>))>>)>>)

\* a property after the nested scope belongs to the scope around it
C25_WitnessAfterNested ==
  /\ IsMicrodataCall
  /\ Len(call.nodes) = 3
  /\ call.nodes[2].depth = 1
  /\ call.nodes[3].depth = 1
  /\ ret = Arr(<<Obj(<<P(<<"@", "t", "y", "p", "e">>, Str(<<"P", "r", "o", "d", "u", "c", "t">>)), P(<<"s", "k", "u">>, Str(<<"S", "1">>))>>),
                 Obj(<<P(<<"@", "t", "y", "p", "e">>, Str(<<"O", "f", "f", "e", "r">>))>>)>>)

\* the page has no JSON-LD block, no meta tag and no microdata scope
NoElementSource(nodes) ==
  \A i \in 1..Len(nodes) :
    /\ i \notin Blocks(nodes)
    /\ nodes[i].tag # "META"
    /\ i \notin Scopes(nodes)

\* C22 as stated: hasStructuredData never raises and always returns a
\* boolean; it returns false for a page that has no JSON-LD block, no meta
\* tag, no microdata scope and no dataLayer register, and false when the
\* query itself fails.
C22_Original ==
  IsHasCall =>
    /\ ret \in {Bool(TRUE), Bool(FALSE)}
    /\ call.document.kind = "failing" => ret = Bool(FALSE)
    /\ /\ call.document.kind = "dom"
       /\ NoElementSource(call.document.nodes)
       /\ call.window.t = "obj"
       /\ ~HasOwn(call.window, <<"d", "a", "t", "a", "L", "a", "y", "e", "r">>)
       => ret = Bool(FALSE)

\* what holds of C22: hasStructuredData never raises; it returns false
\* when the document cannot be queried or the query fails, and true when
\* the page has a JSON-LD block, a meta tag with a property or a name, or a
\* microdata scope; otherwise it returns what the test of the dataLayer
\* register leaves, a boolean only when the window has a dataLayer that is
\* not empty, false, 0, null or undefined.
C22_NeverRaises ==
  IsHasCall =>
    /\ ~IsThrow(ret)
    /\ call.document.kind # "dom" => ret = Bool(FALSE)
    /\ /\ call.document.kind = "dom"
       /\ \E i \in 1..Len(call.document.nodes) :
            \/ i \in Blocks(call.document.nodes)
            \/ i \in Scopes(call.document.nodes)
            \/ /\ call.document.nodes[i].tag = "META"
               /\ \E a \in 1..Len(call.document.nodes[i].attrs) :
                    call.document.nodes[i].attrs[a].k \in {"property", "name"}
       => ret = Bool(TRUE)
    /\ call.document.kind = "dom" /\ NoElementSource(call.document.nodes)
         /\ call.window.t = "obj" /\ Truthy(GetProp(call.window, <<"d", "a", "t", "a", "L", "a", "y", "e", "r">>))
         => ret \in {Bool(TRUE), Bool(FALSE)}

\* an empty page and a window without registers: the answer is undefined
C22_WitnessUndefined ==
  /\ IsHasCall
  /\ call.document.kind = "dom"
  /\ call.document.nodes = <<>>
  /\ call.window = Obj(<<>>)
  /\ ret = Undef

\* what extractAll gives for the document and the window of the call
ExtractedPayload == extractAll(call.document, call.window, CHOOSE now \in Clock : TRUE)

\* the payload has a JSON-LD block, a meta-tag entry, a microdata item or
\* a register
SomeExtracted(payload) ==
  \/ Len(GetProp(payload, <<"j", "s", "o", "n", "L", "d">>).e) > 0
  \/ Len(GetProp(payload, <<"m", "e", "t", "a", "T", "a", "g", "s">>).f) > 0
  \/ Len(GetProp(payload, <<"m", "i", "c", "r", "o", "d", "a", "t", "a">>).e) > 0
  \/ Len(GetProp(payload, <<"d", "a", "t", "a", "L", "a", "y", "e", "r", "s">>).f) > 0

\* C23 as stated: hasStructuredData returns true whenever extractAll on
\* the same document and window would yield at least one JSON-LD block, one
\* meta-tag entry, one microdata item or one recognized global register
\* (dataLayer, digitalData or utag_data), and a non-true answer only when
\* all four of those extracted sources are empty.
C23_Original ==
  IsHasCall /\ ~IsThrow(ExtractedPayload) =>
    (SomeExtracted(ExtractedPayload) => ret = Bool(TRUE))

\* what holds of C23: the answer is true whenever extractAll yields a
\* JSON-LD block, a meta-tag entry, a microdata item, or a dataLayer
\* register that is an array with an entry
C23_ElementsAndDataLayer ==
  IsHasCall /\ ~IsThrow(ExtractedPayload)
    /\ (\/ Len(GetProp(ExtractedPayload, <<"j", "s", "o", "n", "L", "d">>).e) > 0
        \/ Len(GetProp(ExtractedPayload, <<"m", "e", "t", "a", "T", "a", "g", "s">>).f) > 0
        \/ Len(GetProp(ExtractedPayload, <<"m", "i", "c", "r", "o", "d", "a", "t", "a">>).e) > 0
        \/ /\ IsArray(GetProp(GetProp(ExtractedPayload, <<"d", "a", "t", "a", "L", "a", "y", "e", "r", "s">>), <<"d", "a", "t", "a", "L", "a", "y", "e", "r">>))
           /\ Len(GetProp(GetProp(ExtractedPayload, <<"d", "a", "t", "a", "L", "a", "y", "e", "r", "s">>), <<"d", "a", "t", "a", "L", "a", "y", "e", "r">>).e) > 0)
    => ret = Bool(TRUE)

\* the register of Adobe is extracted, and the answer is not true
C23_WitnessDigitalData ==
  /\ IsHasCall
  /\ ~IsThrow(ExtractedPayload)
  /\ HasOwn(GetProp(ExtractedPayload, <<"d", "a", "t", "a", "L", "a", "y", "e", "r", "s">>), <<"d", "i", "g", "i", "t", "a", "l", "D", "a", "t", "a">>)
  /\ ret # Bool(TRUE)

\* C29: for every document and window, the payload returned by
\* BrowserDataExtractor.extractAll is accepted by validateStructuredData:
\* jsonLd is a sequence, metaTags and dataLayers are objects, and url,
\* pageTitle, timestamp and extractorVersion are strings, also when the
\* page has no structured data and the window has no location.
C29_ExtractedIsValid ==
  IsExtractAllCall /\ call.document.kind = "dom" /\ call.window.t = "obj" =>
    /\ validateStructuredData(ret) = Bool(TRUE)
    /\ GetProp(ret, <<"j", "s", "o", "n", "L", "d">>).t = "arr"
    /\ GetProp(ret, <<"m", "e", "t", "a", "T", "a", "g", "s">>).t = "obj"
    /\ GetProp(ret, <<"d", "a", "t", "a", "L", "a", "y", "e", "r", "s">>).t = "obj"
    /\ \A key \in {<<"u", "r", "l">>, <<"p", "a", "g", "e", "T", "i", "t", "l", "e">>, <<"t", "i", "m", "e", "s", "t", "a", "m", "p">>, <<"e", "x", "t", "r", "a", "c", "t", "o", "r", "V", "e", "r", "s", "i", "o", "n">>} :
         GetProp(ret, key).t = "str"

\* an empty page without a title and a window without a location
C29_Witness ==
  /\ IsExtractAllCall
  /\ call.document = Document("dom", <<>>, <<>>)
  /\ call.window = Obj(<<>>)
  /\ GetProp(ret, <<"u", "r", "l">>) = Str(<<>>)
  /\ GetProp(ret, <<"p", "a", "g", "e", "T", "i", "t", "l", "e">>) = Str(<<>>)
  /\ validateStructuredData(ret) = Bool(TRUE)

\* a page with a block, a meta tag and a dataLayer
C29_WitnessFull ==
  /\ IsExtractAllCall
  /\ call.document.kind = "dom"
  /\ Len(GetProp(ret, <<"j", "s", "o", "n", "L", "d">>).e) = 1
  /\ Len(GetProp(ret, <<"m", "e", "t", "a", "T", "a", "g", "s">>).f) = 1
  /\ HasOwn(GetProp(ret, <<"d", "a", "t", "a", "L", "a", "y", "e", "r", "s">>), <<"d", "a", "t", "a", "L", "a", "y", "e", "r">>)
  /\ GetProp(ret, <<"u", "r", "l">>) = Str(<<"h", "t", "t", "p", "s", ":", "/", "/", "s", "h", "o", "p", ".", "n", "z", "/", "t", "v">>)
  /\ validateStructuredData(ret) = Bool(TRUE)

=============================================================================
